---- MODULE Spec2Model ----
(***************************************************************************)
(* flow-pdf: the layout engine, its per-node calculators, the default font *)
(* metrics and the geometry helpers, as a state machine.                   *)
(*                                                                         *)
(* Lengths are JavaScript numbers in the source.  Here a length is an      *)
(* integer count of 1/Unit points, Unit chosen so that every product and   *)
(* quotient the code forms on the modelled inputs is exact; +Infinity,     *)
(* -Infinity and NaN are three values outside the finite range with the    *)
(* IEEE-754 rules for +, -, min, max and comparison.                       *)
(***************************************************************************)
EXTENDS Integers, Sequences, FiniteSets, TLC

VARIABLES
    brk,          \* one DefaultFontMetrics.breakLines call: arguments, locals, position
    calculators,  \* LayoutEngine.calculators: node type -> calculator
    config,       \* LayoutEngine.config: page size and default font size
    node,         \* the Node handed to a calculator or to layout()
    constraints,  \* the Constraints handed to it
    result,       \* what the call returned or threw
    calls,        \* layout() calls completed on this engine, oldest first
    options,      \* Renderer.options
    backend,      \* MockRenderBackend.calls: the calls the backend received
    console,      \* the console.warn messages, oldest first
    run,          \* one Pipeline.generate call: position, layout tree, commands
    helper,       \* one call of a geometry helper: function, arguments, value returned
    adapter,      \* PDFKitAdapter: isFirstPage, chunks, and the PDFKit document
    invocations   \* the layout() invocations in progress on the engine: their frames

vars == <<brk, calculators, config, node, constraints, result, calls,
          options, backend, console, run, helper, adapter, invocations>>

----------------------------------------------------------------------------
(* Bounds of the model *)

\* longest text, in characters, given to breakLines
MaxLen == 5
\* most children of a container handed directly to a calculator
MaxKids == 2
\* most nodes of a tree handed to layout()
MaxNodes == 3
\* most layout() calls followed on one engine
MaxCalls == 3
MaxRenderNodes == 2

----------------------------------------------------------------------------
(* JavaScript numbers *)

Infinity == 1000000000
NegInfinity == 0 - Infinity
NaN == -2000000000
\* an absent optional property
undefined == -1999999999

RECURSIVE Factorial(_)
Factorial(n) == IF n <= 1 THEN 1 ELSE n * Factorial(n - 1)

\* model units per point: 5 makes fontSize * 0.6 and fontSize * 1.2 whole,
\* the factorial makes the even split of an hStack's width whole
Unit == 5 * Factorial(IF MaxKids > MaxNodes - 1 THEN MaxKids ELSE MaxNodes - 1)

Pt(x) == x * Unit

IsFinite(a) == a # NaN /\ a # Infinity /\ a # NegInfinity

Add(a, b) ==
    IF a = NaN \/ b = NaN THEN NaN
    ELSE IF a = Infinity THEN (IF b = NegInfinity THEN NaN ELSE Infinity)
    ELSE IF a = NegInfinity THEN (IF b = Infinity THEN NaN ELSE NegInfinity)
    ELSE IF b = Infinity \/ b = NegInfinity THEN b
    ELSE a + b

Neg(a) == IF a = NaN THEN NaN ELSE 0 - a

Sub(a, b) == Add(a, Neg(b))

\* a / n for a whole n >= 1
DivN(a, n) == IF IsFinite(a) THEN a \div n ELSE a

\* a <= b, a > b: false as soon as one side is NaN
Le(a, b) == a # NaN /\ b # NaN /\ a <= b
Gt(a, b) == a # NaN /\ b # NaN /\ a > b

MathMax(a, b) == IF a = NaN \/ b = NaN THEN NaN ELSE IF a >= b THEN a ELSE b
MathMin(a, b) == IF a = NaN \/ b = NaN THEN NaN ELSE IF a <= b THEN a ELSE b

\* a ?? b
Coalesce(a, b) == IF a = undefined THEN b ELSE a

\* obj.key, undefined when the property is absent
Get(obj, key) == IF key \in DOMAIN obj THEN obj[key] ELSE undefined

\* F applied to the value of x, x evaluated once (const v = x; return F(v))
Bind(x, F(_)) == CHOOSE y \in {F(v) : v \in {x}} : TRUE

\* the sequences over S of length at most n
SeqsUpTo(S, n) == UNION {[1..k -> S] : k \in 0..n}

----------------------------------------------------------------------------
(* DefaultFontMetrics *)

Whitespace == {" "}
Alphabet == {"a", "b", " "}

measureText(text, fontSize) == Len(text) * fontSize * 3 * (Unit \div 5)

getLineHeight(fontSize) == fontSize * 6 * (Unit \div 5)

\* text.split(/\s+/): the pieces between maximal runs of whitespace, the
\* empty piece before a leading run and after a trailing run included
RECURSIVE SplitFrom(_, _, _, _, _)
SplitFrom(text, i, words, piece, inRun) ==
    IF i > Len(text) THEN Append(words, piece)
    ELSE IF text[i] \in Whitespace
         THEN IF inRun THEN SplitFrom(text, i + 1, words, piece, TRUE)
              ELSE SplitFrom(text, i + 1, Append(words, piece), <<>>, TRUE)
         ELSE SplitFrom(text, i + 1, words, Append(piece, text[i]), FALSE)

Split(text) == SplitFrom(text, 1, <<>>, <<>>, FALSE)

\* BreakWord without the push of the pending line
BreakWordUnflushed(st, word, fontSize, maxWidth) ==
    LET testLine == IF st.currentLine # <<>>
                    THEN st.currentLine \o <<" ">> \o word ELSE word
    IN  IF Le(measureText(testLine, fontSize), maxWidth)
        THEN [st EXCEPT !.currentLine = testLine]
        ELSE IF Gt(measureText(word, fontSize), maxWidth)
             THEN [currentLine |-> <<>>, lines |-> Append(st.lines, word)]
             ELSE [currentLine |-> word, lines |-> st.lines]

\* the loop body starting a new line with every word
BreakWordAlone(st, word, fontSize, maxWidth) ==
    LET flushed == IF st.currentLine # <<>>
                   THEN Append(st.lines, st.currentLine) ELSE st.lines
    IN  IF Gt(measureText(word, fontSize), maxWidth)
        THEN [currentLine |-> <<>>, lines |-> Append(flushed, word)]
        ELSE [currentLine |-> word, lines |-> flushed]

\* one iteration of the for loop of breakLines over [currentLine, lines]
BreakWord(st, word, fontSize, maxWidth) ==
    LET testLine == IF st.currentLine # <<>>
                    THEN st.currentLine \o <<" ">> \o word ELSE word
        flushed  == IF st.currentLine # <<>>
                    THEN Append(st.lines, st.currentLine) ELSE st.lines
    IN  IF Le(measureText(testLine, fontSize), maxWidth)
        THEN [st EXCEPT !.currentLine = testLine]
        ELSE IF Gt(measureText(word, fontSize), maxWidth)
             THEN [currentLine |-> <<>>, lines |-> Append(flushed, word)]
             ELSE [currentLine |-> word, lines |-> flushed]

\* after the loop: the pending line is pushed; never an empty list
BreakFinish(st) ==
    LET lines == IF st.currentLine # <<>>
                 THEN Append(st.lines, st.currentLine) ELSE st.lines
    IN  IF Len(lines) > 0 THEN lines ELSE << <<>> >>

RECURSIVE BreakLoop(_, _, _, _, _)
BreakLoop(st, words, i, fontSize, maxWidth) ==
    IF i > Len(words) THEN st
    ELSE BreakLoop(BreakWord(st, words[i], fontSize, maxWidth),
                   words, i + 1, fontSize, maxWidth)

breakLines(text, fontSize, maxWidth) ==
    IF maxWidth = Infinity THEN <<text>>
    ELSE BreakFinish(BreakLoop([currentLine |-> <<>>, lines |-> <<>>],
                               Split(text), 1, fontSize, maxWidth))

----------------------------------------------------------------------------
(* Geometry and constraints *)

constrainWidth(width, c) == MathMax(c.minWidth, MathMin(width, c.maxWidth))

\* constrainHeight without the lower bound
constrainHeightUnfloored(height, c) == MathMin(height, c.maxHeight)

constrainHeight(height, c) == MathMax(c.minHeight, MathMin(height, c.maxHeight))

loose(maxWidth, maxHeight) ==
    [minWidth |-> 0, maxWidth |-> maxWidth, minHeight |-> 0, maxHeight |-> maxHeight]

tight(width, height) ==
    [minWidth |-> width, maxWidth |-> width, minHeight |-> height, maxHeight |-> height]

unbounded == loose(Infinity, Infinity)

\* a padding property is a number, written [uniform |-> n], or a record of
\* some of the four edges
createPadding(value) ==
    IF "uniform" \in DOMAIN value
    THEN [top |-> value.uniform, right |-> value.uniform,
          bottom |-> value.uniform, left |-> value.uniform]
    ELSE [top |-> Coalesce(Get(value, "top"), 0), right |-> Coalesce(Get(value, "right"), 0),
          bottom |-> Coalesce(Get(value, "bottom"), 0), left |-> Coalesce(Get(value, "left"), 0)]

\* paddingValue ? createPadding(paddingValue) : undefined, as a set of at
\* most one Padding: the number 0 is falsy, an object is not
PaddingOf(props) ==
    IF "padding" \notin DOMAIN props THEN {}
    ELSE IF "uniform" \in DOMAIN props.padding /\ props.padding.uniform = 0 THEN {}
    ELSE {createPadding(props.padding)}

getHorizontalPadding(padding) ==
    IF padding = {} THEN 0 ELSE LET p == CHOOSE q \in padding : TRUE IN p.left + p.right

getVerticalPadding(padding) ==
    IF padding = {} THEN 0 ELSE LET p == CHOOSE q \in padding : TRUE IN p.top + p.bottom

\* { x: 0, y: 0, width, height, padding }: the padding property is absent
\* from the record when it is undefined
LayoutBox(width, height, padding) ==
    IF padding = {}
    THEN [x |-> 0, y |-> 0, width |-> width, height |-> height]
    ELSE [x |-> 0, y |-> 0, width |-> width, height |-> height,
          padding |-> CHOOSE q \in padding : TRUE]

----------------------------------------------------------------------------
(* LayoutEngine construction *)

DEFAULT_PAGE_SIZE == [width |-> Pt(595), height |-> Pt(842)]

NoConfig == [none |-> TRUE]

\* a pageSize property holds a set of at most one Dimensions: {} when the
\* property is there with the value undefined
LayoutEngine(cfg) ==
    [pageSize |-> IF "pageSize" \in DOMAIN cfg /\ cfg.pageSize # {}
                  THEN CHOOSE d \in cfg.pageSize : TRUE ELSE DEFAULT_PAGE_SIZE,
     defaultFontSize |-> Coalesce(Get(cfg, "defaultFontSize"), 12)]

----------------------------------------------------------------------------
(* Calculators.  A call returns [threw, error, box, visited]: the box it   *)
(* returns or the error it throws, and the calculator invocations made     *)
(* during the call, in order, each with the place of its node in the tree  *)
(* (the child indices from the root), the constraints and the box.         *)

Returned(box, visited) ==
    [threw |-> FALSE, error |-> <<>>, box |-> box, visited |-> visited]

Thrown(error, visited) == [threw |-> TRUE, error |-> error, visited |-> visited]

Visit(path, c, box) == [path |-> path, constraints |-> c, box |-> box]

RECURSIVE layoutNode(_, _, _)

\* for (const child of node.children) context.layoutChild(child, childConstraints)
RECURSIVE LayoutEach(_, _, _, _)
LayoutEach(children, childConstraints, path, i) ==
    IF i > Len(children) THEN [threw |-> FALSE, error |-> <<>>, boxes |-> <<>>, visited |-> <<>>]
    ELSE Bind(layoutNode(children[i], childConstraints, Append(path, i)), LAMBDA r :
           IF r.threw
           THEN [threw |-> TRUE, error |-> r.error, boxes |-> <<>>, visited |-> r.visited]
           ELSE Bind(LayoutEach(children, childConstraints, path, i + 1), LAMBDA rest :
                  [threw |-> rest.threw, error |-> rest.error,
                   boxes |-> <<r.box>> \o rest.boxes,
                   visited |-> r.visited \o rest.visited]))

RECURSIVE SumOf(_, _, _)
SumOf(boxes, field, i) ==
    IF i > Len(boxes) THEN 0 ELSE Add(boxes[i][field], SumOf(boxes, field, i + 1))

RECURSIVE MaxOf(_, _, _)
MaxOf(boxes, field, i) ==
    IF i > Len(boxes) THEN 0 ELSE MathMax(boxes[i][field], MaxOf(boxes, field, i + 1))

\* calculateTextWidth
RECURSIVE MaxLineWidth(_, _, _)
MaxLineWidth(lines, fontSize, i) ==
    IF i > Len(lines) THEN NegInfinity
    ELSE MathMax(measureText(lines[i], fontSize), MaxLineWidth(lines, fontSize, i + 1))

calculateTextWidth(lines, fontSize) ==
    IF Len(lines) = 0 THEN 0 ELSE MaxLineWidth(lines, fontSize, 1)

\* the font size with the style ignored
FontSizeDefaultOnly(props) == config.defaultFontSize

FontSizeOf(props) ==
    Coalesce(IF "style" \in DOMAIN props THEN Get(props.style, "fontSize") ELSE undefined,
             config.defaultFontSize)

TextCalculator(n, c) ==
    LET explicitWidth  == Get(n.props, "width")
        explicitHeight == Get(n.props, "height")
        fontSize       == FontSizeOf(n.props)
    IN  IF explicitWidth # undefined /\ explicitHeight # undefined
        THEN LayoutBox(constrainWidth(explicitWidth, c), constrainHeight(explicitHeight, c), {})
        ELSE LET maxWidth == Coalesce(explicitWidth, c.maxWidth)
                 lines    == breakLines(n.props.content, fontSize, maxWidth)
                 width    == Coalesce(explicitWidth, calculateTextWidth(lines, fontSize))
                 height   == Coalesce(explicitHeight, Len(lines) * getLineHeight(fontSize))
             IN  LayoutBox(constrainWidth(width, c), constrainHeight(height, c), {})

\* DividerCalculator with the orientation ignored: always horizontal
DividerCalculatorHorizontal(n, c) ==
    LET thickness == Coalesce(Get(n.props, "thickness"), Pt(1))
        length    == Get(n.props, "length")
    IN  LayoutBox(constrainWidth(Coalesce(length, c.maxWidth), c),
                  constrainHeight(thickness, c), {})

DividerCalculator(n, c) ==
    LET orientation == IF "orientation" \in DOMAIN n.props THEN n.props.orientation
                       ELSE "horizontal"
        thickness   == Coalesce(Get(n.props, "thickness"), Pt(1))
        length      == Get(n.props, "length")
        width       == IF orientation = "horizontal" THEN Coalesce(length, c.maxWidth)
                       ELSE thickness
        height      == IF orientation = "horizontal" THEN thickness
                       ELSE Coalesce(length, c.maxHeight)
    IN  LayoutBox(constrainWidth(width, c), constrainHeight(height, c), {})

\* SpacerCalculator with flex 0 taken as flexible
SpacerCalculatorAnyFlex(n, c) ==
    LET explicitWidth  == Get(n.props, "width")
        explicitHeight == Get(n.props, "height")
        flexible       == Get(n.props, "flex") # undefined
        width          == Coalesce(explicitWidth, IF flexible THEN c.maxWidth ELSE 0)
        height         == Coalesce(explicitHeight, IF flexible THEN c.maxHeight ELSE 0)
    IN  LayoutBox(constrainWidth(width, c), constrainHeight(height, c), {})

SpacerCalculator(n, c) ==
    LET explicitWidth  == Get(n.props, "width")
        explicitHeight == Get(n.props, "height")
        flex           == Get(n.props, "flex")
        flexible       == flex # undefined /\ flex > 0
        width          == Coalesce(explicitWidth, IF flexible THEN c.maxWidth ELSE 0)
        height         == Coalesce(explicitHeight, IF flexible THEN c.maxHeight ELSE 0)
    IN  LayoutBox(constrainWidth(width, c), constrainHeight(height, c), {})

VStackChildConstraints(n, c) ==
    LET horizontalPadding == getHorizontalPadding(PaddingOf(n.props))
    IN  [minWidth  |-> MathMax(0, Sub(c.minWidth, horizontalPadding)),
         maxWidth  |-> MathMax(0, Sub(c.maxWidth, horizontalPadding)),
         minHeight |-> 0,
         maxHeight |-> Infinity]

\* VStackBox with the spacing added after the last child too
VStackBoxTrailingSpacing(n, c, childBoxes) ==
    LET spacing        == Coalesce(Get(n.props, "spacing"), 0)
        padding        == PaddingOf(n.props)
        count          == Len(n.children)
        maxChildWidth  == MaxOf(childBoxes, "width", 1)
        totalHeight    == Add(SumOf(childBoxes, "height", 1), count * spacing)
        contentWidth   == Coalesce(Get(n.props, "width"), maxChildWidth)
        contentHeight  == Coalesce(Get(n.props, "height"), totalHeight)
    IN  LayoutBox(constrainWidth(Add(contentWidth, getHorizontalPadding(padding)), c),
                  constrainHeight(Add(contentHeight, getVerticalPadding(padding)), c),
                  padding)

\* the box of a vStack from the boxes layoutChild returned for its children
VStackBox(n, c, childBoxes) ==
    LET spacing        == Coalesce(Get(n.props, "spacing"), 0)
        padding        == PaddingOf(n.props)
        count          == Len(n.children)
        maxChildWidth  == MaxOf(childBoxes, "width", 1)
        totalHeight    == Add(SumOf(childBoxes, "height", 1),
                              IF count > 0 THEN (count - 1) * spacing ELSE 0)
        contentWidth   == Coalesce(Get(n.props, "width"), maxChildWidth)
        contentHeight  == Coalesce(Get(n.props, "height"), totalHeight)
    IN  LayoutBox(constrainWidth(Add(contentWidth, getHorizontalPadding(padding)), c),
                  constrainHeight(Add(contentHeight, getVerticalPadding(padding)), c),
                  padding)

\* the child constraints of an hStack offering every child the whole width
HStackChildConstraintsWhole(n, c) ==
    LET padding        == PaddingOf(n.props)
        availableWidth == MathMax(0, Sub(c.maxWidth, getHorizontalPadding(padding)))
    IN  [minWidth  |-> 0,
         maxWidth  |-> availableWidth,
         minHeight |-> MathMax(0, Sub(c.minHeight, getVerticalPadding(padding))),
         maxHeight |-> MathMax(0, Sub(c.maxHeight, getVerticalPadding(padding)))]

HStackChildConstraints(n, c) ==
    LET spacing        == Coalesce(Get(n.props, "spacing"), 0)
        padding        == PaddingOf(n.props)
        count          == Len(n.children)
        availableWidth == MathMax(0, Sub(c.maxWidth, getHorizontalPadding(padding)))
        totalSpacing   == MathMax(0, (count - 1) * spacing)
        childMaxWidth  == IF count > 0 THEN DivN(Sub(availableWidth, totalSpacing), count)
                          ELSE availableWidth
    IN  [minWidth  |-> 0,
         maxWidth  |-> childMaxWidth,
         minHeight |-> MathMax(0, Sub(c.minHeight, getVerticalPadding(padding))),
         maxHeight |-> MathMax(0, Sub(c.maxHeight, getVerticalPadding(padding)))]

\* HStackBox with the spacing added after the last child too
HStackBoxTrailingSpacing(n, c, childBoxes) ==
    LET spacing        == Coalesce(Get(n.props, "spacing"), 0)
        padding        == PaddingOf(n.props)
        count          == Len(n.children)
        totalWidth     == Add(SumOf(childBoxes, "width", 1), count * spacing)
        maxChildHeight == MaxOf(childBoxes, "height", 1)
        contentWidth   == Coalesce(Get(n.props, "width"), totalWidth)
        contentHeight  == Coalesce(Get(n.props, "height"), maxChildHeight)
    IN  LayoutBox(constrainWidth(Add(contentWidth, getHorizontalPadding(padding)), c),
                  constrainHeight(Add(contentHeight, getVerticalPadding(padding)), c),
                  padding)

HStackBox(n, c, childBoxes) ==
    LET spacing        == Coalesce(Get(n.props, "spacing"), 0)
        padding        == PaddingOf(n.props)
        count          == Len(n.children)
        totalWidth     == Add(SumOf(childBoxes, "width", 1),
                              IF count > 0 THEN (count - 1) * spacing ELSE 0)
        maxChildHeight == MaxOf(childBoxes, "height", 1)
        contentWidth   == Coalesce(Get(n.props, "width"), totalWidth)
        contentHeight  == Coalesce(Get(n.props, "height"), maxChildHeight)
    IN  LayoutBox(constrainWidth(Add(contentWidth, getHorizontalPadding(padding)), c),
                  constrainHeight(Add(contentHeight, getVerticalPadding(padding)), c),
                  padding)

\* the border counted on one side only
BorderSpaceOneSide(props) ==
    Coalesce(IF "border" \in DOMAIN props THEN Get(props.border, "width") ELSE undefined, 0)

\* border?.width ?? 0, on both sides
TotalBorderSpace(props) ==
    2 * Coalesce(IF "border" \in DOMAIN props THEN Get(props.border, "width") ELSE undefined, 0)

BoxChildConstraints(n, c) ==
    LET padding              == PaddingOf(n.props)
        totalHorizontalSpace == getHorizontalPadding(padding) + TotalBorderSpace(n.props)
        totalVerticalSpace   == getVerticalPadding(padding) + TotalBorderSpace(n.props)
    IN  [minWidth  |-> MathMax(0, Sub(c.minWidth, totalHorizontalSpace)),
         maxWidth  |-> MathMax(0, Sub(c.maxWidth, totalHorizontalSpace)),
         minHeight |-> MathMax(0, Sub(c.minHeight, totalVerticalSpace)),
         maxHeight |-> MathMax(0, Sub(c.maxHeight, totalVerticalSpace))]

BoxBox(n, c, childBoxes) ==
    LET padding              == PaddingOf(n.props)
        totalHorizontalSpace == getHorizontalPadding(padding) + TotalBorderSpace(n.props)
        totalVerticalSpace   == getVerticalPadding(padding) + TotalBorderSpace(n.props)
        maxChildWidth        == MaxOf(childBoxes, "width", 1)
        maxChildHeight       == MaxOf(childBoxes, "height", 1)
        explicitWidth        == Get(n.props, "width")
        explicitHeight       == Get(n.props, "height")
        width  == IF explicitWidth # undefined THEN constrainWidth(explicitWidth, c)
                  ELSE constrainWidth(Add(maxChildWidth, totalHorizontalSpace), c)
        height == IF explicitHeight # undefined THEN constrainHeight(explicitHeight, c)
                  ELSE constrainHeight(Add(maxChildHeight, totalVerticalSpace), c)
    IN  LayoutBox(width, height, padding)

\* calculator.calculate(node, constraints, context), context.layoutChild
\* being the engine's layoutNode
Calculate(calculator, n, c, path) ==
    IF calculator \in {"TextCalculator", "DividerCalculator", "SpacerCalculator"}
    THEN Bind(CASE calculator = "TextCalculator"    -> TextCalculator(n, c)
                [] calculator = "DividerCalculator" -> DividerCalculator(n, c)
                [] calculator = "SpacerCalculator"  -> SpacerCalculator(n, c),
              LAMBDA box : Returned(box, <<Visit(path, c, box)>>))
    ELSE Bind(LayoutEach(n.children,
                         CASE calculator = "VStackCalculator" -> VStackChildConstraints(n, c)
                           [] calculator = "HStackCalculator" -> HStackChildConstraints(n, c)
                           [] calculator = "BoxCalculator"    -> BoxChildConstraints(n, c),
                         path, 1),
              LAMBDA kids :
                IF kids.threw THEN Thrown(kids.error, kids.visited)
                ELSE Bind(CASE calculator = "VStackCalculator" -> VStackBox(n, c, kids.boxes)
                            [] calculator = "HStackCalculator" -> HStackBox(n, c, kids.boxes)
                            [] calculator = "BoxCalculator"    -> BoxBox(n, c, kids.boxes),
                          LAMBDA box : Returned(box, <<Visit(path, c, box)>> \o kids.visited)))

NoCalculator(type) == <<"No calculator registered for node type: ", type>>

\* layoutNode giving a node of unknown type an empty box
layoutNodeDefaultSize(n, c, path) ==
    IF n.type \notin DOMAIN calculators
    THEN Returned(LayoutBox(0, 0, {}), <<>>)
    ELSE Calculate(calculators[n.type], n, c, path)

\* layoutNode dispatching the built-in types to their first calculator
layoutNodeBuiltinFirst(n, c, path) ==
    IF n.type \notin DOMAIN calculators THEN Thrown(NoCalculator(n.type), <<>>)
    ELSE IF n.type \in {"text", "vStack", "hStack", "divider", "spacer", "box"}
    THEN Calculate(CASE n.type = "text"    -> "TextCalculator"
                     [] n.type = "vStack"  -> "VStackCalculator"
                     [] n.type = "hStack"  -> "HStackCalculator"
                     [] n.type = "divider" -> "DividerCalculator"
                     [] n.type = "spacer"  -> "SpacerCalculator"
                     [] n.type = "box"     -> "BoxCalculator",
                   n, c, path)
    ELSE Calculate(calculators[n.type], n, c, path)

layoutNode(n, c, path) ==
    IF n.type \notin DOMAIN calculators THEN Thrown(NoCalculator(n.type), <<>>)
    ELSE Calculate(calculators[n.type], n, c, path)

----------------------------------------------------------------------------
(* LayoutEngine.  layoutNodeWithChildren returns [threw, error, layoutNode, *)
(* visited]; a LayoutNode is [node, box], with children for a container.   *)

\* getSpacing finding no spacing
getSpacingNone(n) == undefined

\* typeof props.spacing === 'number' ? props.spacing : undefined
getSpacing(n) == IF "props" \in DOMAIN n THEN Get(n.props, "spacing") ELSE undefined

HasChildren(n) == "children" \in DOMAIN n

RECURSIVE layoutNodeWithChildren(_, _, _)

\* the loop of layoutChildren from child i on, the cursor at (currentX, currentY)
RECURSIVE PositionFrom(_, _, _, _, _, _)
PositionFrom(parentNode, parentBox, path, i, currentX, currentY) ==
    IF i > Len(parentNode.children)
    THEN [threw |-> FALSE, error |-> <<>>, layoutNodes |-> <<>>, visited |-> <<>>]
    ELSE Bind(layoutNodeWithChildren(
                  parentNode.children[i],
                  [minWidth  |-> 0,
                   maxWidth  |-> Sub(parentBox.width, Sub(currentX, parentBox.x)),
                   minHeight |-> 0,
                   maxHeight |-> Sub(parentBox.height, Sub(currentY, parentBox.y))],
                  Append(path, i)),
              LAMBDA r :
         IF r.threw
         THEN [threw |-> TRUE, error |-> r.error, layoutNodes |-> <<>>, visited |-> r.visited]
         ELSE LET childBox == r.layoutNode.box
                  positioned == [r.layoutNode EXCEPT
                                    !.box = [childBox EXCEPT !.x = currentX, !.y = currentY]]
                  isHorizontal == parentNode.type = "hStack"
                  gap == IF i < Len(parentNode.children)
                         THEN Coalesce(getSpacing(parentNode), 0) ELSE 0
                  nextX == IF isHorizontal
                           THEN Add(Add(currentX, childBox.width), gap) ELSE currentX
                  nextY == IF isHorizontal THEN currentY
                           ELSE Add(Add(currentY, childBox.height), gap)
              IN  Bind(PositionFrom(parentNode, parentBox, path, i + 1, nextX, nextY),
                       LAMBDA rest :
                         [threw |-> rest.threw, error |-> rest.error,
                          layoutNodes |-> IF rest.threw THEN <<>>
                                          ELSE <<positioned>> \o rest.layoutNodes,
                          visited |-> r.visited \o rest.visited]))

layoutChildren(parentNode, parentBox, path) ==
    LET left == IF "padding" \in DOMAIN parentBox THEN parentBox.padding.left ELSE 0
        top  == IF "padding" \in DOMAIN parentBox THEN parentBox.padding.top ELSE 0
    IN  PositionFrom(parentNode, parentBox, path, 1,
                     Add(parentBox.x, left), Add(parentBox.y, top))

\* layoutNodeWithChildren returning the node and its box without children
layoutNodeWithoutChildren(n, c, path) ==
    Bind(layoutNode(n, c, path), LAMBDA own :
      IF own.threw THEN Thrown(own.error, own.visited)
      ELSE [threw |-> FALSE, error |-> <<>>,
            layoutNode |-> [node |-> n, box |-> own.box], visited |-> own.visited])

layoutNodeWithChildren(n, c, path) ==
    Bind(layoutNode(n, c, path), LAMBDA own :
      IF own.threw THEN Thrown(own.error, own.visited)
      ELSE IF ~HasChildren(n)
      THEN [threw |-> FALSE, error |-> <<>>,
            layoutNode |-> [node |-> n, box |-> own.box], visited |-> own.visited]
      ELSE Bind(layoutChildren(n, own.box, path), LAMBDA kids :
             IF kids.threw THEN Thrown(kids.error, own.visited \o kids.visited)
             ELSE [threw |-> FALSE, error |-> <<>>,
                   layoutNode |-> [node |-> n, box |-> own.box,
                                   children |-> kids.layoutNodes],
                   visited |-> own.visited \o kids.visited]))

\* layout(root) without constraints
NoArgument == [none |-> TRUE]

\* the page height left under the root of the previous call
LayoutConstraintsBelowPrevious(c) ==
    IF c = NoArgument
    THEN LET used == IF calls # <<>> /\ calls[Len(calls)].result.kind = "tree"
                     THEN calls[Len(calls)].result.tree.root.box.height ELSE 0
         IN  [minWidth |-> 0, maxWidth |-> config.pageSize.width,
              minHeight |-> 0, maxHeight |-> MathMax(0, Sub(config.pageSize.height, used))]
    ELSE c

\* constraints ?? the page size
LayoutConstraints(c) ==
    IF c = NoArgument
    THEN [minWidth |-> 0, maxWidth |-> config.pageSize.width,
          minHeight |-> 0, maxHeight |-> config.pageSize.height]
    ELSE c

\* LayoutEngine.layout: [kind |-> "tree", tree, visited] or
\* [kind |-> "error", error, visited]
layout(root, c) ==
    Bind(layoutNodeWithChildren(root, LayoutConstraints(c), <<>>), LAMBDA r :
      IF r.threw THEN [kind |-> "error", error |-> r.error, visited |-> r.visited]
      ELSE [kind |-> "tree",
            tree |-> [root |-> r.layoutNode, pageSize |-> config.pageSize],
            visited |-> r.visited])

----------------------------------------------------------------------------
(* Values of the variables of the calls the model is not running *)

NoBreak == [pc |-> "idle"]
NoNode == [type |-> "none"]
NoConstraints == [minWidth |-> 0, maxWidth |-> 0, minHeight |-> 0, maxHeight |-> 0]
NoResult == [kind |-> "none"]
NoOptions == [none |-> TRUE]
NoRun == [pc |-> "idle"]
NoHelper == [fn |-> "none"]
NoAdapter == [none |-> TRUE]
BuiltinCalculators ==
    [t \in {"text", "vStack", "hStack", "divider", "spacer", "box"} |->
        CASE t = "text"    -> "TextCalculator"
          [] t = "vStack"  -> "VStackCalculator"
          [] t = "hStack"  -> "HStackCalculator"
          [] t = "divider" -> "DividerCalculator"
          [] t = "spacer"  -> "SpacerCalculator"
          [] t = "box"     -> "BoxCalculator"]

----------------------------------------------------------------------------
(* breakLines, one loop iteration per step *)

Texts == SeqsUpTo(Alphabet, MaxLen)
FontSizes == {10, 12}
BreakWidths == {Pt(-6), 0, Pt(7), Pt(13), Pt(20), Infinity, NaN}

InitLines ==
    /\ brk \in {[pc |-> "start", text |-> t, fontSize |-> f, maxWidth |-> w,
                 words |-> <<>>, i |-> 0, currentLine |-> <<>>, lines |-> <<>>] :
                 t \in Texts, f \in FontSizes, w \in BreakWidths}
    /\ calculators = BuiltinCalculators
    /\ config = LayoutEngine(NoConfig)
    /\ node = NoNode
    /\ constraints = NoConstraints
    /\ result = NoResult
    /\ calls = <<>>
    /\ options = NoOptions
    /\ backend = <<>>
    /\ console = <<>>
    /\ run = NoRun
    /\ helper = NoHelper
    /\ adapter = NoAdapter
    /\ invocations = <<>>

\* the maxWidth === Infinity shortcut
BreakUnbounded ==
    /\ brk.pc = "start"
    /\ brk.maxWidth = Infinity
    /\ brk' = [brk EXCEPT !.pc = "done", !.lines = <<brk.text>>]
    /\ UNCHANGED <<calculators, config, node, constraints, result, calls,
                   options, backend, console, run, helper, adapter, invocations>>

\* const words = text.split(/\s+/)
BreakSplit ==
    /\ brk.pc = "start"
    /\ brk.maxWidth # Infinity
    /\ brk' = [brk EXCEPT !.pc = "loop", !.words = Split(brk.text), !.i = 1]
    /\ UNCHANGED <<calculators, config, node, constraints, result, calls,
                   options, backend, console, run, helper, adapter, invocations>>

\* for (const word of words) { ... }
BreakIterate ==
    /\ brk.pc = "loop"
    /\ brk.i <= Len(brk.words)
    /\ LET st == BreakWord([currentLine |-> brk.currentLine, lines |-> brk.lines],
                           brk.words[brk.i], brk.fontSize, brk.maxWidth)
       IN  brk' = [brk EXCEPT !.currentLine = st.currentLine,
                              !.lines = st.lines, !.i = brk.i + 1]
    /\ UNCHANGED <<calculators, config, node, constraints, result, calls,
                   options, backend, console, run, helper, adapter, invocations>>

\* the final push and the return
BreakReturn ==
    /\ brk.pc = "loop"
    /\ brk.i > Len(brk.words)
    /\ brk' = [brk EXCEPT !.pc = "done",
                          !.lines = BreakFinish([currentLine |-> brk.currentLine,
                                                 lines |-> brk.lines])]
    /\ UNCHANGED <<calculators, config, node, constraints, result, calls,
                   options, backend, console, run, helper, adapter, invocations>>

NextLines == BreakUnbounded \/ BreakSplit \/ BreakIterate \/ BreakReturn

SpecLines == InitLines /\ [][NextLines]_vars

\* the loop is sequential code: a call that can take a step takes it
SpecLinesFair == SpecLines /\ WF_vars(NextLines)

\* the words of a text: its maximal runs of non-whitespace characters
WordsOf(text) == SelectSeq(Split(text), LAMBDA w : w # <<>>)

RECURSIVE WordsOfLines(_, _)
WordsOfLines(lines, i) ==
    IF i > Len(lines) THEN <<>> ELSE WordsOf(lines[i]) \o WordsOfLines(lines, i + 1)

\* with maxWidth = +Infinity the whole text is the one line returned;
\* otherwise the words of the returned lines, read in order, are exactly the
\* words of the text, and a word wider than maxWidth is a line of its own
BreakLinesLosesNothing ==
    brk.pc = "done" =>
        IF brk.maxWidth = Infinity THEN brk.lines = <<brk.text>>
        ELSE /\ WordsOfLines(brk.lines, 1) = WordsOf(brk.text)
             /\ \A j \in 1..Len(brk.lines) :
                  \A k \in 1..Len(WordsOf(brk.lines[j])) :
                     LET w == WordsOf(brk.lines[j])[k]
                     IN  Gt(measureText(w, brk.fontSize), brk.maxWidth)
                            => brk.lines[j] = w

\* C10: breakLines ends for every text, font size and maxWidth; with
\* maxWidth = +Infinity it returns the whole text as one line; otherwise
\* every word of the text is in exactly one returned line, in the original
\* order, whole, and a word wider than maxWidth is a line of its own.
BreakLinesTotal == <>(brk.pc = "done") /\ []BreakLinesLosesNothing

\* a two-word text is broken in two lines, the first word wider than maxWidth
BreakLinesWitness ==
    /\ brk.pc = "done"
    /\ brk.maxWidth = Pt(7)
    /\ brk.fontSize = 10
    /\ brk.text = <<"a", "a", " ", "b">>
    /\ brk.lines = << <<"a", "a">>, <<"b">> >>

\* the step machine returns what the one-shot operator returns
BreakLinesAgree ==
    brk.pc = "done" => brk.lines = breakLines(brk.text, brk.fontSize, brk.maxWidth)

----------------------------------------------------------------------------
(* One calculator call: calculate(node, constraints, context) on a node    *)
(* built by the DSL, the context being the engine's                        *)

ShortText == <<"a", "b">>
LongText == <<"a", "a", " ", "b", "b", " ", "a">>
WideWord == <<"a", "a", "a", "a", "a">>

\* the records with any subset of the given optional properties
Options(fields) ==
    UNION {{[k \in keys |-> fields[k]]} : keys \in SUBSET DOMAIN fields}

TextNodes ==
    {[type |-> "text", props |-> [content |-> t] @@ style @@ size] :
        t \in {ShortText, LongText, WideWord},
        style \in {<<>>, [style |-> [fontSize |-> 10]]},
        size \in Options([width |-> Pt(30), height |-> Pt(20)])}

SpacerNodes ==
    {[type |-> "spacer", props |-> flex @@ size] :
        flex \in {<<>>, [flex |-> 0], [flex |-> 1]},
        size \in Options([width |-> Pt(30), height |-> Pt(20)])}

DividerNodes ==
    {[type |-> "divider", props |-> o @@ rest] :
        o \in {<<>>, [orientation |-> "horizontal"], [orientation |-> "vertical"]},
        rest \in Options([thickness |-> Pt(2), length |-> Pt(50)])}

\* the children given to a container
ChildNodes ==
    {[type |-> "text", props |-> [content |-> ShortText]],
     [type |-> "text", props |-> [content |-> LongText]],
     [type |-> "spacer", props |-> [width |-> Pt(30), height |-> Pt(20)]],
     [type |-> "spacer", props |-> [flex |-> 1]],
     [type |-> "hStack", props |-> [spacing |-> Pt(40)],
      children |-> <<[type |-> "divider", props |-> [thickness |-> Pt(2)]],
                     [type |-> "spacer", props |-> [width |-> Pt(10), height |-> Pt(60)]]>>]}

Paddings == {<<>>, [padding |-> [uniform |-> Pt(5)]],
             [padding |-> [top |-> Pt(2), left |-> Pt(3)]], [padding |-> [uniform |-> 0]]}

Sizes == {<<>>, [width |-> Pt(80)], [height |-> Pt(40)], [width |-> Pt(80), height |-> Pt(40)]}

StackNodes ==
    {[type |-> t, props |-> spacing @@ padding @@ size, children |-> kids] :
        t \in {"vStack", "hStack"},
        spacing \in {<<>>, [spacing |-> Pt(10)]},
        padding \in Paddings, size \in Sizes,
        kids \in SeqsUpTo(ChildNodes, MaxKids)}

BoxNodes ==
    {[type |-> "box", props |-> border @@ padding @@ size, children |-> kids] :
        border \in {<<>>, [border |-> [width |-> Pt(2)]]},
        padding \in Paddings, size \in Sizes,
        kids \in SeqsUpTo(ChildNodes, MaxKids)}

\* constraints with 0 <= min <= max on both axes
CalcConstraints ==
    {loose(Pt(500), Pt(1000)), loose(Pt(20), Pt(1000)), loose(Pt(45), Pt(10)),
     loose(Pt(8), Pt(1000)), tight(Pt(50), Pt(30)), unbounded,
     [minWidth |-> Pt(20), maxWidth |-> Pt(120), minHeight |-> Pt(10), maxHeight |-> Pt(70)]}

InitCalc ==
    /\ brk = NoBreak
    /\ calculators = BuiltinCalculators
    /\ config = LayoutEngine(NoConfig)
    /\ \/ node \in TextNodes
       \/ node \in SpacerNodes
       \/ node \in DividerNodes
       \/ node \in StackNodes
       \/ node \in BoxNodes
    /\ constraints \in CalcConstraints
    /\ result = NoResult
    /\ calls = <<>>
    /\ options = NoOptions
    /\ backend = <<>>
    /\ console = <<>>
    /\ run = NoRun
    /\ helper = NoHelper
    /\ adapter = NoAdapter
    /\ invocations = <<>>

\* calculator.calculate(node, constraints, context)
CalculateNode(type) ==
    /\ result = NoResult
    /\ node.type = type
    /\ result' = Bind(Calculate(BuiltinCalculators[type], node, constraints, <<>>),
                       LAMBDA r : [kind |-> "box", box |-> r.box, visited |-> r.visited])
    /\ UNCHANGED <<brk, calculators, config, node, constraints, calls,
                   options, backend, console, run, helper, adapter, invocations>>

CalculateText == CalculateNode("text")
CalculateVStack == CalculateNode("vStack")
CalculateHStack == CalculateNode("hStack")
CalculateDivider == CalculateNode("divider")
CalculateSpacer == CalculateNode("spacer")
CalculateBox == CalculateNode("box")

NextCalc ==
    \/ CalculateText
    \/ CalculateVStack
    \/ CalculateHStack
    \/ CalculateDivider
    \/ CalculateSpacer
    \/ CalculateBox

SpecCalc == InitCalc /\ [][NextCalc]_vars

----------------------------------------------------------------------------
(* layout() on every small document *)

\* a node of a type the engine has no calculator for
ChartNode == [type |-> "chart", props |-> <<>>]

Leaves ==
    {[type |-> "text", props |-> [content |-> LongText]],
     [type |-> "spacer", props |-> [width |-> Pt(30), height |-> Pt(20)]],
     [type |-> "spacer", props |-> [flex |-> 1]],
     ChartNode}

\* type and props of the containers
Containers ==
    {[type |-> t, props |-> p] :
        t \in {"vStack", "hStack"},
        p \in {<<>>, [spacing |-> Pt(10), padding |-> [uniform |-> Pt(5)]]}}
    \cup
    {[type |-> "box", props |-> p] :
        p \in {<<>>, [padding |-> [uniform |-> Pt(5)], border |-> [width |-> Pt(2)]]}}

RECURSIVE TreesOfSize(_)
RECURSIVE ForestsOfSize(_)

\* the documents of exactly n nodes
TreesOfSize(n) ==
    (IF n = 1 THEN Leaves ELSE {})
    \cup {k @@ [children |-> f] : k \in Containers, f \in ForestsOfSize(n - 1)}

\* the child lists of n nodes in all
ForestsOfSize(n) ==
    IF n = 0 THEN {<<>>}
    ELSE UNION {{<<t>> \o f : t \in TreesOfSize(k), f \in ForestsOfSize(n - k)} : k \in 1..n}

Documents == UNION {TreesOfSize(n) : n \in 1..MaxNodes}

\* the constraints argument of layout(): absent, a small area, unbounded
LayoutArguments == {NoArgument, loose(Pt(40), Pt(30)), unbounded}

\* engine.layout(root, c)
LayoutCall(root, c) ==
    /\ Len(calls) < MaxCalls
    /\ node' = root
    /\ constraints' = c
    /\ result' = layout(root, c)
    /\ calls' = Append(calls, [root |-> root, constraints |-> c, result |-> result'])
    /\ UNCHANGED <<helper, adapter, invocations>>
    /\ UNCHANGED <<brk, calculators, config, options, backend, console, run>>

InitEngine ==
    /\ brk = NoBreak
    /\ calculators = BuiltinCalculators
    /\ config = LayoutEngine(NoConfig)
    /\ node \in Documents
    /\ constraints = NoConstraints
    /\ result = NoResult
    /\ calls = <<>>
    /\ options = NoOptions
    /\ backend = <<>>
    /\ console = <<>>
    /\ run = NoRun
    /\ helper = NoHelper
    /\ adapter = NoAdapter
    /\ invocations = <<>>

\* one layout() call on the document
Layout == \E c \in LayoutArguments : calls = <<>> /\ LayoutCall(node, c)

NextEngine == Layout

SpecEngine == InitEngine /\ [][NextEngine]_vars

----------------------------------------------------------------------------
(* Several layout() calls on one engine *)

CallDocuments ==
    {[type |-> "text", props |-> [content |-> LongText]],
     [type |-> "vStack", props |-> [spacing |-> Pt(10), padding |-> [uniform |-> Pt(5)]],
      children |-> <<[type |-> "spacer", props |-> [flex |-> 1]],
                     [type |-> "text", props |-> [content |-> LongText]]>>],
     [type |-> "hStack", props |-> <<>>,
      children |-> <<[type |-> "text", props |-> [content |-> LongText]],
                     [type |-> "spacer", props |-> [width |-> Pt(30), height |-> Pt(20)]]>>],
     [type |-> "box", props |-> [padding |-> [uniform |-> Pt(5)]],
      children |-> <<ChartNode>>]}

InitCalls ==
    /\ brk = NoBreak
    /\ calculators = BuiltinCalculators
    /\ config = LayoutEngine(NoConfig)
    /\ node = NoNode
    /\ constraints = NoConstraints
    /\ result = NoResult
    /\ calls = <<>>
    /\ options = NoOptions
    /\ backend = <<>>
    /\ console = <<>>
    /\ run = NoRun
    /\ helper = NoHelper
    /\ adapter = NoAdapter
    /\ invocations = <<>>

\* the next layout() call, on any document
LayoutAgain == \E d \in CallDocuments, c \in LayoutArguments : LayoutCall(d, c)

NextCalls == LayoutAgain

SpecCalls == InitCalls /\ [][NextCalls]_vars

----------------------------------------------------------------------------
(* Properties of the calculators *)

\* C1: the box a built-in calculator returns under constraints with
\* 0 <= min <= max lies within them on both axes, so it is never negative.
BoxWithinConstraints ==
    result.kind = "box" =>
        /\ Le(constraints.minWidth, result.box.width)
        /\ Le(result.box.width, constraints.maxWidth)
        /\ Le(constraints.minHeight, result.box.height)
        /\ Le(result.box.height, constraints.maxHeight)
        /\ Le(0, result.box.width)
        /\ Le(0, result.box.height)

\* two children overflow a small area and the vStack is cut to its height
BoxClampedWitness ==
    /\ result.kind = "box"
    /\ node.type = "vStack"
    /\ Len(node.children) = 2
    /\ constraints = loose(Pt(45), Pt(10))
    /\ result.box.height = Pt(10)
    /\ result.box.width = Pt(45)

----------------------------------------------------------------------------
(* Properties of layout() *)

RECURSIVE LayoutNodesOf(_)
LayoutNodesOf(ln) ==
    {ln} \cup (IF "children" \in DOMAIN ln
               THEN UNION {LayoutNodesOf(ln.children[i]) : i \in 1..Len(ln.children)}
               ELSE {})

\* the places of the nodes of a document: the child indices from the root
RECURSIVE PathsOf(_, _)
PathsOf(n, path) ==
    {path} \cup (IF HasChildren(n)
                 THEN UNION {PathsOf(n.children[i], Append(path, i)) :
                                i \in 1..Len(n.children)}
                 ELSE {})

RECURSIVE TypesOf(_)
TypesOf(n) ==
    {n.type} \cup (IF HasChildren(n)
                   THEN UNION {TypesOf(n.children[i]) : i \in 1..Len(n.children)}
                   ELSE {})

FirstChildAtContentOrigin(ln) ==
    ("children" \in DOMAIN ln /\ Len(ln.children) > 0) =>
        /\ ln.children[1].box.x =
              Add(ln.box.x, IF "padding" \in DOMAIN ln.box THEN ln.box.padding.left ELSE 0)
        /\ ln.children[1].box.y =
              Add(ln.box.y, IF "padding" \in DOMAIN ln.box THEN ln.box.padding.top ELSE 0)

\* C2: in the returned LayoutTree the first child of every container, at
\* every depth, lies at the content origin of its parent's box as that box
\* appears in the tree (absolute page coordinates).
AbsolutePositions ==
    result.kind = "tree" =>
        \A ln \in LayoutNodesOf(result.tree.root) : FirstChildAtContentOrigin(ln)

\* C3: layout() throws the error naming a type without calculator whenever
\* the root or a descendant has such a type, and then returns no tree.
UnknownTypeThrows ==
    (result # NoResult /\ TypesOf(node) \ DOMAIN calculators # {}) =>
        /\ result.kind = "error"
        /\ "tree" \notin DOMAIN result
        /\ \E t \in TypesOf(node) \ DOMAIN calculators : result.error = NoCalculator(t)

\* the unknown node is a grandchild of the root
UnknownTypeWitness ==
    /\ result.kind = "error"
    /\ result.error = NoCalculator("chart")
    /\ node.type = "vStack"
    /\ Len(node.children) = 1
    /\ node.children[1].type = "box"
    /\ node.children[1].children = <<ChartNode>>

\* the number of calculator invocations on the node at a place
Invocations(visited, path) ==
    Cardinality({i \in 1..Len(visited) : visited[i].path = path})

\* C4: during one layout() call the calculator is invoked exactly once for
\* each node of the tree: as many invocations as nodes.
CalculatedOnce ==
    result.kind = "tree" =>
        /\ \A p \in PathsOf(node, <<>>) : Invocations(result.visited, p) = 1
        /\ Len(result.visited) = Cardinality(PathsOf(node, <<>>))

\* what the engine does: the calculator is invoked once for the root and
\* d + 1 times for a node at depth d, once by the positioning pass and once
\* more under the calculator of each of its ancestors
CalculatedOncePerAncestor ==
    result.kind = "tree" =>
        \A p \in PathsOf(node, <<>>) : Invocations(result.visited, p) = Len(p) + 1

\* a grandchild is calculated three times
CalculatedThriceWitness ==
    /\ result.kind = "tree"
    /\ \E p \in PathsOf(node, <<>>) :
          Len(p) = 2 /\ Invocations(result.visited, p) = 3

----------------------------------------------------------------------------
(* Sizing rules of the calculators *)

\* v brought into [lo, hi]
Clamp(v, lo, hi) == IF v < lo THEN lo ELSE IF v > hi THEN hi ELSE v

\* the boxes layoutChild returned for the children of the calculated node
RECURSIVE ChildBoxesFrom(_, _)
ChildBoxesFrom(visited, i) ==
    IF i > Len(visited) THEN <<>>
    ELSE (IF Len(visited[i].path) = 1 THEN <<visited[i].box>> ELSE <<>>)
         \o ChildBoxesFrom(visited, i + 1)

ChildBoxes == ChildBoxesFrom(result.visited, 1)

SpacingTotal ==
    IF Len(node.children) = 0 THEN 0
    ELSE (Len(node.children) - 1) * Coalesce(Get(node.props, "spacing"), 0)

HorizontalPadding == getHorizontalPadding(PaddingOf(node.props))
VerticalPadding == getVerticalPadding(PaddingOf(node.props))

StackCalculated(type) ==
    /\ result.kind = "box"
    /\ node.type = type
    /\ Len(ChildBoxes) = Len(node.children)

\* C6 as claimed: the height of a vStack without explicit height is the sum
\* of its children's heights, the spacing between them and the vertical
\* padding; its width the explicit or the largest child width plus the
\* horizontal padding.
VStackSizeUnclamped ==
    StackCalculated("vStack") =>
        /\ Get(node.props, "height") = undefined =>
              result.box.height =
                 Add(Add(SumOf(ChildBoxes, "height", 1), SpacingTotal), VerticalPadding)
        /\ result.box.width =
              Add(Coalesce(Get(node.props, "width"), MaxOf(ChildBoxes, "width", 1)),
                  HorizontalPadding)

\* C6: those sums, brought into the constraints: the height lies in
\* [minHeight, maxHeight] and the width in [minWidth, maxWidth].
VStackSize ==
    StackCalculated("vStack") =>
        /\ Get(node.props, "height") = undefined =>
              result.box.height =
                 Clamp(Add(Add(SumOf(ChildBoxes, "height", 1), SpacingTotal), VerticalPadding),
                       constraints.minHeight, constraints.maxHeight)
        /\ result.box.width =
              Clamp(Add(Coalesce(Get(node.props, "width"), MaxOf(ChildBoxes, "width", 1)),
                        HorizontalPadding),
                    constraints.minWidth, constraints.maxWidth)

\* two children 20 high, spacing 10, padding 5: 20 + 20 + 10 + 10 = 60
VStackSizeWitness ==
    /\ StackCalculated("vStack")
    /\ Len(node.children) = 2
    /\ \A i \in 1..2 : ChildBoxes[i].height = Pt(20)
    /\ Get(node.props, "spacing") = Pt(10)
    /\ VerticalPadding = Pt(10)
    /\ Get(node.props, "height") = undefined
    /\ result.box.height = Pt(60)

\* C7 as claimed: the width of an hStack without explicit width is the sum
\* of its children's widths, the spacing between them and the horizontal
\* padding; its height the explicit or the largest child height plus the
\* vertical padding.
HStackSizeUnclamped ==
    StackCalculated("hStack") =>
        /\ Get(node.props, "width") = undefined =>
              result.box.width =
                 Add(Add(SumOf(ChildBoxes, "width", 1), SpacingTotal), HorizontalPadding)
        /\ result.box.height =
              Add(Coalesce(Get(node.props, "height"), MaxOf(ChildBoxes, "height", 1)),
                  VerticalPadding)

\* C7: those sums, brought into the constraints.
HStackSize ==
    StackCalculated("hStack") =>
        /\ Get(node.props, "width") = undefined =>
              result.box.width =
                 Clamp(Add(Add(SumOf(ChildBoxes, "width", 1), SpacingTotal), HorizontalPadding),
                       constraints.minWidth, constraints.maxWidth)
        /\ result.box.height =
              Clamp(Add(Coalesce(Get(node.props, "height"), MaxOf(ChildBoxes, "height", 1)),
                        VerticalPadding),
                    constraints.minHeight, constraints.maxHeight)

\* two children 30 wide, spacing 10, padding 5: 30 + 30 + 10 + 10 = 80
HStackSizeWitness ==
    /\ StackCalculated("hStack")
    /\ Len(node.children) = 2
    /\ \A i \in 1..2 : ChildBoxes[i].width = Pt(30)
    /\ Get(node.props, "spacing") = Pt(10)
    /\ HorizontalPadding = Pt(10)
    /\ Get(node.props, "width") = undefined
    /\ result.box.width = Pt(80)

BorderWidth ==
    IF "border" \in DOMAIN node.props THEN node.props.border.width ELSE 0

\* C8 as claimed: a box without explicit size is its largest child plus
\* padding plus twice the border width; an explicit size is the box size.
BoxSizeUnclamped ==
    StackCalculated("box") =>
        /\ result.box.width =
              IF Get(node.props, "width") # undefined THEN node.props.width
              ELSE Add(MaxOf(ChildBoxes, "width", 1), HorizontalPadding + 2 * BorderWidth)
        /\ result.box.height =
              IF Get(node.props, "height") # undefined THEN node.props.height
              ELSE Add(MaxOf(ChildBoxes, "height", 1), VerticalPadding + 2 * BorderWidth)

\* C8: those sizes, brought into the constraints.
BoxSize ==
    StackCalculated("box") =>
        /\ result.box.width =
              Clamp(IF Get(node.props, "width") # undefined THEN node.props.width
                    ELSE Add(MaxOf(ChildBoxes, "width", 1),
                             HorizontalPadding + 2 * BorderWidth),
                    constraints.minWidth, constraints.maxWidth)
        /\ result.box.height =
              Clamp(IF Get(node.props, "height") # undefined THEN node.props.height
                    ELSE Add(MaxOf(ChildBoxes, "height", 1),
                             VerticalPadding + 2 * BorderWidth),
                    constraints.minHeight, constraints.maxHeight)

\* padding 5, border 2, one child 30 x 20: 44 x 34
BoxSizeWitness ==
    /\ StackCalculated("box")
    /\ Len(node.children) = 1
    /\ ChildBoxes[1].width = Pt(30) /\ ChildBoxes[1].height = Pt(20)
    /\ HorizontalPadding = Pt(10) /\ VerticalPadding = Pt(10)
    /\ BorderWidth = Pt(2)
    /\ Get(node.props, "width") = undefined /\ Get(node.props, "height") = undefined
    /\ result.box.width = Pt(44) /\ result.box.height = Pt(34)

TextCalculated == result.kind = "box" /\ node.type = "text"

\* the font size of the calculated text: its style's, or the context default
TextFontSize ==
    IF "style" \in DOMAIN node.props /\ "fontSize" \in DOMAIN node.props.style
    THEN node.props.style.fontSize ELSE config.defaultFontSize

\* the lines of the calculated text, broken within explicitWidth ?? maxWidth
TextLines ==
    breakLines(node.props.content, TextFontSize,
               Coalesce(Get(node.props, "width"), constraints.maxWidth))

RECURSIVE WidestLine(_, _)
WidestLine(lines, i) ==
    IF i > Len(lines) THEN 0
    ELSE LET w == measureText(lines[i], TextFontSize)
             rest == WidestLine(lines, i + 1)
         IN  IF w > rest THEN w ELSE rest

TextBothExplicit ==
    TextCalculated /\ Get(node.props, "width") # undefined
                   /\ Get(node.props, "height") # undefined

\* both explicit: the explicit size, brought into the constraints
TextExplicitClamped ==
    TextBothExplicit =>
        /\ result.box.width =
              Clamp(node.props.width, constraints.minWidth, constraints.maxWidth)
        /\ result.box.height =
              Clamp(node.props.height, constraints.minHeight, constraints.maxHeight)

\* C9 as claimed: both explicit: the explicit size brought into the
\* constraints; otherwise the width is the widest line's (or the explicit
\* width) and the height lineCount x lineHeight (or the explicit height);
\* under a finite maxWidth the width never exceeds maxWidth and a text that
\* does not fit on one line is higher than one line.
TextSizeUnclamped ==
    /\ TextExplicitClamped
    /\ (TextCalculated /\ ~TextBothExplicit) =>
          /\ result.box.width =
                Coalesce(Get(node.props, "width"), WidestLine(TextLines, 1))
          /\ result.box.height =
                Coalesce(Get(node.props, "height"),
                         Len(TextLines) * getLineHeight(TextFontSize))
    /\ (TextCalculated /\ IsFinite(constraints.maxWidth)) =>
          result.box.width <= constraints.maxWidth
    /\ (TextCalculated /\ ~TextBothExplicit /\ IsFinite(constraints.maxWidth)
           /\ measureText(node.props.content, TextFontSize) >
                 Coalesce(Get(node.props, "width"), constraints.maxWidth)) =>
          result.box.height > getLineHeight(TextFontSize)

\* C9: both explicit: the explicit size brought into the constraints;
\* otherwise the widest line (or the explicit width) and lineCount x
\* lineHeight (or the explicit height), each brought into the constraints;
\* under a finite maxWidth the width never exceeds maxWidth; a text without
\* explicit height broken into two lines or more gets a height greater than
\* one line height when maxHeight is greater than one line height.
TextSize ==
    /\ TextExplicitClamped
    /\ (TextCalculated /\ ~TextBothExplicit) =>
          /\ result.box.width =
                Clamp(Coalesce(Get(node.props, "width"), WidestLine(TextLines, 1)),
                      constraints.minWidth, constraints.maxWidth)
          /\ result.box.height =
                Clamp(Coalesce(Get(node.props, "height"),
                               Len(TextLines) * getLineHeight(TextFontSize)),
                      constraints.minHeight, constraints.maxHeight)
    /\ (TextCalculated /\ IsFinite(constraints.maxWidth)) =>
          result.box.width <= constraints.maxWidth
    /\ (TextCalculated /\ Get(node.props, "height") = undefined
           /\ Len(TextLines) >= 2
           /\ constraints.maxHeight > getLineHeight(TextFontSize)) =>
          result.box.height > getLineHeight(TextFontSize)

\* a sentence wrapped under maxWidth 20 at the style's font size 10: three
\* lines of 12 each, the widest 12 wide
TextSizeWitness ==
    /\ TextCalculated
    /\ node.props.content = LongText
    /\ TextFontSize = 10
    /\ DOMAIN node.props = {"content", "style"}
    /\ constraints = loose(Pt(20), Pt(1000))
    /\ Len(TextLines) = 3
    /\ result.box.width = Pt(12)
    /\ result.box.height = Pt(36)

----------------------------------------------------------------------------
(* Sizing rules of the divider and the spacer *)

DividerCalculated == result.kind = "box" /\ node.type = "divider"

DividerVertical ==
    "orientation" \in DOMAIN node.props /\ node.props.orientation = "vertical"

DividerThickness == Coalesce(Get(node.props, "thickness"), Pt(1))

\* C11 as claimed: a vertical divider is thickness wide and length ??
\* maxHeight high, a horizontal one length ?? maxWidth wide and thickness
\* high; the thickness defaults to 1 and the orientation to horizontal.
DividerSizeUnclamped ==
    DividerCalculated =>
        IF DividerVertical
        THEN /\ result.box.width = DividerThickness
             /\ result.box.height = Coalesce(Get(node.props, "length"), constraints.maxHeight)
        ELSE /\ result.box.width = Coalesce(Get(node.props, "length"), constraints.maxWidth)
             /\ result.box.height = DividerThickness

\* C11: those two sizes, each brought into the constraints.
DividerSize ==
    DividerCalculated =>
        IF DividerVertical
        THEN /\ result.box.width =
                   Clamp(DividerThickness, constraints.minWidth, constraints.maxWidth)
             /\ result.box.height =
                   Clamp(Coalesce(Get(node.props, "length"), constraints.maxHeight),
                         constraints.minHeight, constraints.maxHeight)
        ELSE /\ result.box.width =
                   Clamp(Coalesce(Get(node.props, "length"), constraints.maxWidth),
                         constraints.minWidth, constraints.maxWidth)
             /\ result.box.height =
                   Clamp(DividerThickness, constraints.minHeight, constraints.maxHeight)

\* a vertical divider of thickness 2 without length fills the height offered
DividerSizeWitness ==
    /\ DividerCalculated
    /\ DividerVertical
    /\ DOMAIN node.props = {"orientation", "thickness"}
    /\ node.props.thickness = Pt(2)
    /\ constraints = loose(Pt(500), Pt(1000))
    /\ result.box.width = Pt(2)
    /\ result.box.height = Pt(1000)

SpacerCalculated == result.kind = "box" /\ node.type = "spacer"

SpacerFlexible == "flex" \in DOMAIN node.props /\ node.props.flex > 0

\* a flexible spacer without explicit size fills the maxima offered
SpacerFills ==
    (SpacerCalculated /\ SpacerFlexible
        /\ DOMAIN node.props \cap {"width", "height"} = {}) =>
        /\ result.box.width = constraints.maxWidth
        /\ result.box.height = constraints.maxHeight

\* C12 as claimed: a flexible spacer without explicit size gets the maxima
\* offered; a spacer with flex absent or 0 gets its explicit width and
\* height, and 0 on every axis left unset.
SpacerSizeUnclamped ==
    /\ SpacerFills
    /\ (SpacerCalculated /\ ~SpacerFlexible) =>
          /\ result.box.width = Coalesce(Get(node.props, "width"), 0)
          /\ result.box.height = Coalesce(Get(node.props, "height"), 0)

\* C12: a flexible spacer without explicit size gets the maxima offered; a
\* spacer with flex absent or 0 gets its explicit width and height, 0 on
\* every axis left unset, each brought into the constraints.
SpacerSize ==
    /\ SpacerFills
    /\ (SpacerCalculated /\ ~SpacerFlexible) =>
          /\ result.box.width =
                Clamp(Coalesce(Get(node.props, "width"), 0),
                      constraints.minWidth, constraints.maxWidth)
          /\ result.box.height =
                Clamp(Coalesce(Get(node.props, "height"), 0),
                      constraints.minHeight, constraints.maxHeight)

\* flex 0 and a width only: 30 wide, 0 high
SpacerSizeWitness ==
    /\ SpacerCalculated
    /\ DOMAIN node.props = {"flex", "width"}
    /\ node.props.flex = 0
    /\ constraints = loose(Pt(500), Pt(1000))
    /\ result.box.width = Pt(30)
    /\ result.box.height = 0

----------------------------------------------------------------------------
(* Renderer.  A command is a record of its type and constructor arguments; *)
(* path and outline tell which LayoutNode it was generated for and whether *)
(* it is the debug outline.  generateCommands returns [commands, warnings], *)
(* the warnings being the console.warn messages of the walk.               *)

\* the properties of obj among keys
Pick(obj, keys) == [k \in DOMAIN obj \cap keys |-> obj[k]]

\* new RectCommand(box.x, box.y, box.width, box.height, style)
RectCommand(box, style, path, outline) ==
    [type |-> "rect", x |-> box.x, y |-> box.y, width |-> box.width,
     height |-> box.height, style |-> style, path |-> path, outline |-> outline]

\* the outline of the size of the box, at the origin of the page
DebugOutlineUnplaced(ln, path) ==
    RectCommand([ln.box EXCEPT !.x = 0, !.y = 0],
                [strokeColor |-> "#cccccc", strokeWidth |-> Unit \div 2], path, TRUE)

DebugOutline(ln, path) ==
    RectCommand(ln.box, [strokeColor |-> "#cccccc", strokeWidth |-> Unit \div 2], path, TRUE)

renderText(ln, path) ==
    LET props == ln.node.props
    IN  IF "content" \notin DOMAIN props \/ props.content = <<>> THEN <<>>
        ELSE <<[type |-> "text", text |-> props.content, x |-> ln.box.x, y |-> ln.box.y,
                style |-> IF "style" \in DOMAIN props
                          THEN Pick(props.style, {"fontSize", "fontWeight", "fontStyle", "color"})
                          ELSE <<>>,
                path |-> path, outline |-> FALSE]>>

renderDivider(ln, path) ==
    LET props       == ln.node.props
        box         == ln.box
        orientation == IF "orientation" \in DOMAIN props THEN props.orientation
                       ELSE "horizontal"
        thickness   == Coalesce(Get(props, "thickness"), Pt(1))
        color       == IF "color" \in DOMAIN props THEN props.color ELSE "#000000"
        dash        == IF "style" \in DOMAIN props /\ props.style = "dashed"
                       THEN [dashPattern |-> <<5, 3>>]
                       ELSE IF "style" \in DOMAIN props /\ props.style = "dotted"
                       THEN [dashPattern |-> <<1, 2>>] ELSE <<>>
    IN  <<[type |-> "line", x1 |-> box.x, y1 |-> box.y,
           x2 |-> IF orientation = "horizontal" THEN Add(box.x, box.width) ELSE box.x,
           y2 |-> IF orientation = "vertical" THEN Add(box.y, box.height) ELSE box.y,
           style |-> [width |-> thickness, color |-> color] @@ dash,
           path |-> path, outline |-> FALSE]>>

\* the rect of a box with a background or a border
BoxRect(ln, path) ==
    LET props == ln.node.props
    IN  IF "backgroundColor" \in DOMAIN props \/ "border" \in DOMAIN props
        THEN <<RectCommand(ln.box,
                   (IF "backgroundColor" \in DOMAIN props
                    THEN [fillColor |-> props.backgroundColor] ELSE <<>>)
                   @@ (IF "border" \in DOMAIN props /\ "color" \in DOMAIN props.border
                       THEN [strokeColor |-> props.border.color] ELSE <<>>)
                   @@ (IF "border" \in DOMAIN props /\ "width" \in DOMAIN props.border
                       THEN [strokeWidth |-> props.border.width] ELSE <<>>)
                   @@ (IF "border" \in DOMAIN props /\ "radius" \in DOMAIN props.border
                       THEN [borderRadius |-> props.border.radius] ELSE <<>>),
                   path, FALSE)>>
        ELSE <<>>

UnknownNodeType(type) == <<"Unknown node type: ", type>>

RECURSIVE generateCommands(_, _, _)

\* for (const child of layoutNode.children) commands.push(...generateCommands(child))
RECURSIVE RenderEach(_, _, _, _)
RenderEach(ln, debugLayout, path, i) ==
    IF "children" \notin DOMAIN ln \/ i > Len(ln.children)
    THEN [commands |-> <<>>, warnings |-> <<>>]
    ELSE Bind(generateCommands(ln.children[i], debugLayout, Append(path, i)), LAMBDA r :
           Bind(RenderEach(ln, debugLayout, path, i + 1), LAMBDA rest :
             [commands |-> r.commands \o rest.commands,
              warnings |-> r.warnings \o rest.warnings]))

\* renderBox pushing the rect after the commands of the children
renderBoxChildrenFirst(ln, debugLayout, path) ==
    Bind(RenderEach(ln, debugLayout, path, 1), LAMBDA kids :
      [commands |-> kids.commands \o BoxRect(ln, path), warnings |-> kids.warnings])

renderBox(ln, debugLayout, path) ==
    Bind(RenderEach(ln, debugLayout, path, 1), LAMBDA kids :
      [commands |-> BoxRect(ln, path) \o kids.commands, warnings |-> kids.warnings])

renderStack(ln, debugLayout, path) == RenderEach(ln, debugLayout, path, 1)

\* generateCommands skipping a node of unknown type without a warning
generateCommandsSilent(ln, debugLayout, path) ==
    Bind(CASE ln.node.type = "text"    -> [commands |-> renderText(ln, path), warnings |-> <<>>]
           [] ln.node.type = "box"     -> renderBox(ln, debugLayout, path)
           [] ln.node.type = "divider" -> [commands |-> renderDivider(ln, path),
                                           warnings |-> <<>>]
           [] ln.node.type \in {"vStack", "hStack"} -> renderStack(ln, debugLayout, path)
           [] OTHER -> [commands |-> <<>>, warnings |-> <<>>],
         LAMBDA own :
           [commands |-> (IF debugLayout THEN <<DebugOutline(ln, path)>> ELSE <<>>)
                         \o own.commands,
            warnings |-> own.warnings])

generateCommands(ln, debugLayout, path) ==
    Bind(CASE ln.node.type = "text"    -> [commands |-> renderText(ln, path), warnings |-> <<>>]
           [] ln.node.type = "box"     -> renderBox(ln, debugLayout, path)
           [] ln.node.type = "divider" -> [commands |-> renderDivider(ln, path),
                                           warnings |-> <<>>]
           [] ln.node.type \in {"vStack", "hStack"} -> renderStack(ln, debugLayout, path)
           [] ln.node.type = "spacer"  -> [commands |-> <<>>, warnings |-> <<>>]
           [] OTHER -> [commands |-> <<>>, warnings |-> <<UnknownNodeType(ln.node.type)>>],
         LAMBDA own :
           [commands |-> (IF debugLayout THEN <<DebugOutline(ln, path)>> ELSE <<>>)
                         \o own.commands,
            warnings |-> own.warnings])

\* command.execute(backend): the one backend call of a command
execute(command) ==
    CASE command.type = "text" ->
           [method |-> "drawText",
            args |-> <<command.text, command.x, command.y, command.style>>]
      [] command.type = "rect" ->
           [method |-> "drawRect",
            args |-> <<command.x, command.y, command.width, command.height, command.style>>]
      [] command.type = "line" ->
           [method |-> "drawLine",
            args |-> <<command.x1, command.y1, command.x2, command.y2, command.style>>]

----------------------------------------------------------------------------
(* Pipeline and pdf().  A configuration object is a record of the          *)
(* properties it has; pageSize and debugLayout hold a set of at most one   *)
(* value, {} for a property that is there with the value undefined.        *)

\* { ...a, ...b }
Spread(a, b) == [k \in DOMAIN a \cup DOMAIN b |-> IF k \in DOMAIN b THEN b[k] ELSE a[k]]

\* obj.key of a property holding a set of at most one value
Opt(obj, key) == IF key \in DOMAIN obj THEN obj[key] ELSE {}

Letter == [width |-> Pt(612), height |-> Pt(792)]

DEFAULT_CONFIG == [pageSize |-> {Letter}, defaultFontSize |-> 12, debugLayout |-> {FALSE}]

\* new Pipeline(c): the merged configuration, the configuration of the
\* layout engine and the options of the renderer
Pipeline(c) ==
    LET merged == Spread(DEFAULT_CONFIG, c)
    IN  [config |-> merged,
         layoutEngine |-> LayoutEngine([pageSize |-> merged.pageSize,
                                        defaultFontSize |-> merged.defaultFontSize]),
         renderer |-> [debugLayout |-> merged.debugLayout]]

\* the pipelineConfig pdf(root, c) builds
PdfPipelineConfig(c) ==
    IF c = NoArgument THEN <<>>
    ELSE [pageSize |-> Opt(c, "pageSize"),
          defaultFontSize |-> Get(c, "defaultFontSize"),
          debugLayout |-> Opt(c, "debugLayout")]

ValidationError(message) == [name |-> "ValidationError", message |-> <<message>>]

\* new Error(`Pipeline generation failed: ${error.message}`)
GenerationFailed(message) ==
    [name |-> "Error", message |-> <<"Pipeline generation failed: ">> \o message]

Null == [null |-> TRUE]

\* validateNode: the error it throws, none for a node it accepts
validateNode(root) ==
    IF root = Null
    THEN {ValidationError("Document root node cannot be null or undefined")}
    ELSE IF "type" \notin DOMAIN root \/ root.type = ""
    THEN {ValidationError("Node must have a type property")}
    ELSE {}

----------------------------------------------------------------------------
(* One Pipeline.generate(root) call, from the construction of the pipeline *)
(* to the last call on the backend                                         *)

RenderLeaves ==
    {[type |-> "text", props |-> [content |-> ShortText,
                                  style |-> [fontSize |-> 10, color |-> "#333333"]]],
     [type |-> "divider", props |-> <<>>],
     [type |-> "spacer", props |-> [height |-> Pt(20)]],
     ChartNode}

\* type and props of the containers; the last one has a type the renderer
\* does not know
RenderContainers ==
    {[type |-> "vStack", props |-> [spacing |-> Pt(10)]],
     [type |-> "hStack", props |-> <<>>],
     [type |-> "box", props |-> [padding |-> [uniform |-> Pt(5)]]],
     [type |-> "box", props |-> [backgroundColor |-> "#eeeeee"]],
     [type |-> "box", props |-> [border |-> [width |-> Pt(2), color |-> "#000000"]]],
     ChartNode}

RECURSIVE RenderTreesOfSize(_)
RECURSIVE RenderForestsOfSize(_)

RenderTreesOfSize(n) ==
    (IF n = 1 THEN RenderLeaves ELSE {})
    \cup {k @@ [children |-> f] : k \in RenderContainers, f \in RenderForestsOfSize(n - 1)}

RenderForestsOfSize(n) ==
    IF n = 0 THEN {<<>>}
    ELSE UNION {{<<t>> \o f : t \in RenderTreesOfSize(k), f \in RenderForestsOfSize(n - k)} :
                  k \in 1..n}

PlainText == [type |-> "text", props |-> [content |-> LongText]]

VerticalDivider ==
    [type |-> "divider",
     props |-> [orientation |-> "vertical", thickness |-> Pt(2), style |-> "dashed"]]

\* documents with a node between two siblings
SiblingDocuments ==
    {[type |-> "vStack", props |-> <<>>, children |-> <<PlainText, mid, VerticalDivider>>] :
        mid \in {ChartNode,
                 ChartNode @@ [children |-> <<PlainText>>],
                 [type |-> "box", props |-> [backgroundColor |-> "#eeeeee"],
                  children |-> <<PlainText, VerticalDivider>>]}}

RenderDocuments ==
    UNION {RenderTreesOfSize(n) : n \in 1..MaxRenderNodes} \cup SiblingDocuments

\* roots validateNode rejects: null, a node without type, a node of empty type
InvalidRoots == {Null, [props |-> <<>>], [type |-> "", props |-> <<>>]}

A5 == [width |-> Pt(420), height |-> Pt(595)]

\* new Pipeline(argument), or pdf(root, argument)
PipelineArguments ==
    {[route |-> "Pipeline", argument |-> a] :
        a \in {<<>>, [debugLayout |-> {TRUE}], [pageSize |-> {A5}]}}
    \cup
    {[route |-> "pdf", argument |-> a] :
        a \in {NoArgument, <<>>, [debugLayout |-> {TRUE}], [pageSize |-> {A5}]}}

InitPipeline ==
    /\ brk = NoBreak
    /\ calculators = BuiltinCalculators
    /\ node \in RenderDocuments \cup InvalidRoots
    /\ constraints = NoConstraints
    /\ result = NoResult
    /\ calls = <<>>
    /\ backend = <<>>
    /\ console = <<>>
    /\ helper = NoHelper
    /\ adapter = NoAdapter
    /\ invocations = <<>>
    /\ \E a \in PipelineArguments :
          LET p == Pipeline(IF a.route = "pdf" THEN PdfPipelineConfig(a.argument)
                            ELSE a.argument)
          IN  /\ config = p.layoutEngine
              /\ options = p.renderer
              /\ run = [pc |-> "new", route |-> a.route, argument |-> a.argument,
                        config |-> p.config, commands |-> <<>>, next |-> 1, error |-> {}]

\* pipeline.getLayoutEngine().registerCalculator(nodeType, calculator)
RegisterCalculator ==
    /\ run.pc = "new"
    /\ run.route = "Pipeline"
    /\ \E nodeType \in {"chart"}, calculator \in {"SpacerCalculator"} :
          /\ nodeType \notin DOMAIN calculators
          /\ calculators' = [t \in DOMAIN calculators \cup {nodeType} |->
                               IF t = nodeType THEN calculator ELSE calculators[t]]
    /\ UNCHANGED <<helper, adapter, invocations>>
    /\ UNCHANGED <<brk, config, node, constraints, result, calls, options, backend,
                   console, run>>

\* generate, phase 1: this.validateNode(root)
Validate ==
    /\ run.pc = "new"
    /\ run' = IF validateNode(node) # {}
              THEN [run EXCEPT !.pc = "rejected", !.error = validateNode(node)]
              ELSE [run EXCEPT !.pc = "validated"]
    /\ UNCHANGED <<helper, adapter, invocations>>
    /\ UNCHANGED <<brk, calculators, config, node, constraints, result, calls, options,
                   backend, console>>

\* generate re-throwing the error of layout() as it is
LayoutPhaseUnwrapped ==
    /\ run.pc = "validated"
    /\ result' = layout(node, NoArgument)
    /\ calls' = Append(calls, [root |-> node, constraints |-> NoArgument, result |-> result'])
    /\ run' = IF result'.kind = "error"
              THEN [run EXCEPT !.pc = "rejected",
                               !.error = {[name |-> "Error", message |-> result'.error]}]
              ELSE [run EXCEPT !.pc = "laidOut"]
    /\ UNCHANGED <<helper, adapter, invocations>>
    /\ UNCHANGED <<brk, calculators, config, node, constraints, options, backend, console>>

\* generate, phase 2: this.layoutEngine.layout(root)
LayoutPhase ==
    /\ run.pc = "validated"
    /\ result' = layout(node, NoArgument)
    /\ calls' = Append(calls, [root |-> node, constraints |-> NoArgument, result |-> result'])
    /\ run' = IF result'.kind = "error"
              THEN [run EXCEPT !.pc = "rejected", !.error = {GenerationFailed(result'.error)}]
              ELSE [run EXCEPT !.pc = "laidOut"]
    /\ UNCHANGED <<helper, adapter, invocations>>
    /\ UNCHANGED <<brk, calculators, config, node, constraints, options, backend, console>>

\* render: backend.createPage(this.options.pageOptions)
CreatePage ==
    /\ run.pc = "laidOut"
    /\ backend' = Append(backend, [method |-> "createPage", args |-> <<undefined>>])
    /\ run' = [run EXCEPT !.pc = "page"]
    /\ UNCHANGED <<helper, adapter, invocations>>
    /\ UNCHANGED <<brk, calculators, config, node, constraints, result, calls, options,
                   console>>

\* render: const commands = this.generateCommands(layoutTree.root)
GenerateCommands ==
    /\ run.pc = "page"
    /\ LET r == generateCommands(result.tree.root, TRUE \in options.debugLayout, <<>>)
       IN  /\ run' = [run EXCEPT !.pc = "executing", !.commands = r.commands]
           /\ console' = console \o r.warnings
    /\ UNCHANGED <<helper, adapter, invocations>>
    /\ UNCHANGED <<brk, calculators, config, node, constraints, result, calls, options,
                   backend>>

\* executeCommands running through the commands from the last one
ExecuteCommandReversed ==
    /\ run.pc = "executing"
    /\ run.next <= Len(run.commands)
    /\ backend' = Append(backend, execute(run.commands[Len(run.commands) + 1 - run.next]))
    /\ run' = [run EXCEPT !.next = @ + 1]
    /\ UNCHANGED <<helper, adapter, invocations>>
    /\ UNCHANGED <<brk, calculators, config, node, constraints, result, calls, options,
                   console>>

\* executeCommands: command.execute(backend) for the next command
ExecuteCommand ==
    /\ run.pc = "executing"
    /\ run.next <= Len(run.commands)
    /\ backend' = Append(backend, execute(run.commands[run.next]))
    /\ run' = [run EXCEPT !.next = @ + 1]
    /\ UNCHANGED <<helper, adapter, invocations>>
    /\ UNCHANGED <<brk, calculators, config, node, constraints, result, calls, options,
                   console>>

\* render: return backend.finalize()
Finalize ==
    /\ run.pc = "executing"
    /\ run.next > Len(run.commands)
    /\ backend' = Append(backend, [method |-> "finalize", args |-> <<>>])
    /\ run' = [run EXCEPT !.pc = "done"]
    /\ UNCHANGED <<helper, adapter, invocations>>
    /\ UNCHANGED <<brk, calculators, config, node, constraints, result, calls, options,
                   console>>

NextPipeline ==
    \/ RegisterCalculator
    \/ Validate
    \/ LayoutPhase
    \/ CreatePage
    \/ GenerateCommands
    \/ ExecuteCommand
    \/ Finalize

SpecPipeline == InitPipeline /\ [][NextPipeline]_vars

\* generate() runs to its end
SpecPipelineFair == SpecPipeline /\ WF_vars(NextPipeline)

----------------------------------------------------------------------------
(* The commands of a document *)

RECURSIVE LayoutNodeAt(_, _)
LayoutNodeAt(ln, path) ==
    IF path = <<>> THEN ln ELSE LayoutNodeAt(ln.children[Head(path)], Tail(path))

\* the places of the LayoutNodes that have no ancestor of unknown type
RECURSIVE Walked(_, _)
Walked(ln, path) ==
    {path} \cup (IF ln.node.type \in {"box", "vStack", "hStack"} /\ "children" \in DOMAIN ln
                 THEN UNION {Walked(ln.children[i], Append(path, i)) :
                                i \in 1..Len(ln.children)}
                 ELSE {})

\* place p is place q, or comes before it in document order
RECURSIVE PreOrderLe(_, _)
PreOrderLe(p, q) ==
    IF p = <<>> THEN TRUE
    ELSE IF q = <<>> THEN FALSE
    ELSE IF Head(p) # Head(q) THEN Head(p) < Head(q)
    ELSE PreOrderLe(Tail(p), Tail(q))

\* the commands of the node at a place, its debug outline apart
OwnCommands(commands, path) ==
    SelectSeq(commands, LAMBDA c : c.path = path /\ ~c.outline)

Generated == run.pc \in {"executing", "done"}

KnownTypes == {"text", "box", "divider", "vStack", "hStack", "spacer"}

\* the places the walk reaches that hold a node of unknown type
WalkedUnknown(root) ==
    {p \in Walked(root, <<>>) : LayoutNodeAt(root, p).node.type \notin KnownTypes}

\* the debug outlines of the node at a place
Outlines(commands, path) ==
    SelectSeq(commands, LAMBDA c : c.path = path /\ c.outline)

\* the places of the siblings of the node at a place
Siblings(root, p) ==
    {q \in Walked(root, <<>>) :
        /\ q # p
        /\ Len(q) = Len(p)
        /\ SubSeq(q, 1, Len(q) - 1) = SubSeq(p, 1, Len(p) - 1)}

\* C14: generateCommands returns for a tree holding a node of unknown type.
\* For each such node the walk reaches, one warning naming its type is on the
\* console; the node has no command of its own, and no command at all but
\* its outline with debugLayout; each text and divider among its siblings,
\* before and after it, still has its one command, the commands being in
\* document order.
UnknownTypeSkipped ==
    Generated =>
        LET root     == result.tree.root
            commands == run.commands
            debug    == TRUE \in options.debugLayout
        IN  /\ Len(console) = Cardinality(WalkedUnknown(root))
            /\ \A p \in WalkedUnknown(root) :
                  /\ \E i \in 1..Len(console) :
                        console[i] = UnknownNodeType(LayoutNodeAt(root, p).node.type)
                  /\ OwnCommands(commands, p) = <<>>
                  /\ Len(Outlines(commands, p)) = IF debug THEN 1 ELSE 0
                  /\ \A q \in Siblings(root, p) :
                        LayoutNodeAt(root, q).node.type \in {"text", "divider"} =>
                            /\ Len(OwnCommands(commands, q)) = 1
                            /\ OwnCommands(commands, q)[1].type =
                                  IF LayoutNodeAt(root, q).node.type = "text"
                                  THEN "text" ELSE "line"
            /\ \A i, j \in 1..Len(commands) :
                  (i < j /\ WalkedUnknown(root) # {}) =>
                      PreOrderLe(commands[i].path, commands[j].path)

\* a text, a node of unknown type and a divider in a vStack: one warning, the
\* text command and the line command
UnknownTypeSkippedWitness ==
    /\ run.pc = "done"
    /\ node.type = "vStack"
    /\ Len(node.children) = 3
    /\ node.children[2] = ChartNode
    /\ ~(TRUE \in options.debugLayout)
    /\ console = <<UnknownNodeType("chart")>>
    /\ [i \in 1..Len(run.commands) |-> run.commands[i].type] = <<"text", "line">>
    /\ [i \in 1..Len(backend) |-> backend[i].method]
          = <<"createPage", "drawText", "drawLine", "finalize">>

\* the node at place p of the tree has one outline, built from its box and
\* placed immediately before the commands of its own
OutlinedAt(root, commands, p) ==
    LET ln == LayoutNodeAt(root, p)
    IN  /\ Len(Outlines(commands, p)) = 1
        /\ \E k \in 1..Len(commands) :
              /\ commands[k].path = p /\ commands[k].outline
              /\ commands[k].type = "rect"
              /\ commands[k].x = ln.box.x /\ commands[k].y = ln.box.y
              /\ commands[k].width = ln.box.width /\ commands[k].height = ln.box.height
              /\ OwnCommands(commands, p) # <<>> =>
                    /\ k < Len(commands)
                    /\ commands[k + 1] = OwnCommands(commands, p)[1]

\* the rect commands
RectCount(commands) == Cardinality({i \in 1..Len(commands) : commands[i].type = "rect"})

\* the places, among ps, of the boxes with a background colour or a border
DrawnBoxes(root, ps) ==
    {p \in ps : LET n == LayoutNodeAt(root, p).node
                IN  /\ n.type = "box"
                    /\ "backgroundColor" \in DOMAIN n.props \/ "border" \in DOMAIN n.props}

\* C15 as claimed: with debugLayout every LayoutNode of the tree has one
\* outline rect built from its box, immediately before the commands of its
\* own, and there are as many rect commands as nodes in the tree and boxes
\* with a background or a border; without debugLayout there is no outline.
DebugOutlineEveryNode ==
    Generated =>
        LET root     == result.tree.root
            commands == run.commands
            places   == PathsOf(root, <<>>)
        IN  IF TRUE \in options.debugLayout
            THEN /\ \A p \in places : OutlinedAt(root, commands, p)
                 /\ RectCount(commands)
                       = Cardinality(places) + Cardinality(DrawnBoxes(root, places))
            ELSE \A i \in 1..Len(commands) : ~commands[i].outline

\* C15: with debugLayout every LayoutNode that has no ancestor of unknown
\* type has one outline rect built from its box, immediately before the
\* commands of its own, and there are as many rect commands as such nodes and
\* boxes with a background or a border among them; the nodes below a node of
\* unknown type have no outline.  Without debugLayout there is no outline.
DebugOutlineWalked ==
    Generated =>
        LET root     == result.tree.root
            commands == run.commands
            places   == Walked(root, <<>>)
        IN  IF TRUE \in options.debugLayout
            THEN /\ \A p \in places : OutlinedAt(root, commands, p)
                 /\ \A p \in PathsOf(root, <<>>) \ places : Outlines(commands, p) = <<>>
                 /\ RectCount(commands)
                       = Cardinality(places) + Cardinality(DrawnBoxes(root, places))
            ELSE \A i \in 1..Len(commands) : ~commands[i].outline

\* with debugLayout, a text, a node of unknown type holding a text, and a
\* divider in a vStack: five nodes, four outlines
DebugOutlineWitness ==
    /\ run.pc = "done"
    /\ TRUE \in options.debugLayout
    /\ Cardinality(PathsOf(result.tree.root, <<>>)) = 5
    /\ Cardinality(Walked(result.tree.root, <<>>)) = 4
    /\ RectCount(run.commands) = 4
    /\ [i \in 1..Len(run.commands) |-> run.commands[i].type]
          = <<"rect", "rect", "text", "rect", "rect", "line">>

----------------------------------------------------------------------------
(* The calls the backend receives *)

\* the backend method that draws a command
DrawMethod(command) ==
    CASE command.type = "text" -> "drawText"
      [] command.type = "rect" -> "drawRect"
      [] command.type = "line" -> "drawLine"

\* the backend has received createPage and then the draw calls of the first
\* n commands, in their order
DrawnUpTo(n) ==
    /\ Len(backend) >= n + 1
    /\ backend[1].method = "createPage"
    /\ \A i \in 1..n :
          /\ backend[i + 1] = execute(run.commands[i])
          /\ backend[i + 1].method = DrawMethod(run.commands[i])

BackendInOrder ==
    CASE run.pc = "page"      -> Len(backend) = 1 /\ DrawnUpTo(0)
      [] run.pc = "executing" -> Len(backend) = run.next /\ DrawnUpTo(run.next - 1)
      [] run.pc = "done"      -> /\ Len(backend) = Len(run.commands) + 2
                                 /\ DrawnUpTo(Len(run.commands))
                                 /\ backend[Len(backend)].method = "finalize"
      [] OTHER                -> backend = <<>>

\* C16: render calls createPage once, before every draw call, then the
\* drawText, drawRect or drawLine of each generated command in the order of
\* generation, then finalize once, as the last call; the step that generates
\* the commands leaves the calls of the backend as they are, and every other
\* step of render adds exactly one call.
RenderOrder ==
    /\ []BackendInOrder
    /\ [][/\ run.pc = "page" => backend' = backend
          /\ run.pc \in {"laidOut", "executing"} =>
                Len(backend') = Len(backend) + 1
                /\ SubSeq(backend', 1, Len(backend)) = backend]_vars

\* the whole render of a text, a box with a background holding a text and a
\* divider, and a divider
RenderOrderWitness ==
    /\ run.pc = "done"
    /\ [i \in 1..Len(backend) |-> backend[i].method]
          = <<"createPage", "drawText", "drawRect", "drawText", "drawLine", "drawLine",
              "finalize">>

\* C17: generate rejects a root that is null or undefined, or has no type,
\* with the ValidationError of validateNode as it is, and a document whose
\* layout throws with an Error whose message is 'Pipeline generation
\* failed: ' followed by the message of the layout error; such roots and
\* documents are always rejected, and the backend of a rejected call has
\* received no call at all.
GenerateRejects ==
    /\ node \in InvalidRoots => run.pc \in {"new", "rejected"}
    /\ result.kind = "error" => run.pc = "rejected"
    /\ run.pc = "rejected" =>
          /\ backend = <<>>
          /\ IF node = Null
             THEN /\ result = NoResult
                  /\ run.error = {[name |-> "ValidationError",
                                   message |-> <<"Document root node cannot be null or undefined">>]}
             ELSE IF node \in InvalidRoots
             THEN /\ result = NoResult
                  /\ run.error = {[name |-> "ValidationError",
                                   message |-> <<"Node must have a type property">>]}
             ELSE /\ result.kind = "error"
                  /\ run.error = {[name |-> "Error",
                                   message |-> <<"Pipeline generation failed: ">>
                                               \o result.error]}

\* a document holding a node of a type without calculator: the layout error
\* wrapped, no call on the backend
GenerateRejectsWitness ==
    /\ run.pc = "rejected"
    /\ node \notin InvalidRoots
    /\ node.type = "vStack"
    /\ run.error = {[name |-> "Error",
                     message |-> <<"Pipeline generation failed: ",
                                   "No calculator registered for node type: ", "chart">>]}
    /\ backend = <<>>

\* no pageSize among the properties of the configuration argument
NoExplicitPageSize == "pageSize" \notin DOMAIN run.argument

\* C18: whenever pdf() or new Pipeline() is used without an explicit
\* pageSize, with no configuration at all or with one that sets other
\* options only, the page is Letter: the layout engine works on 612 x 792,
\* the root is laid out under maxWidth 612 and maxHeight 792, and the
\* pageSize of the LayoutTree is 612 x 792.
PageSizeDefaultsToLetter ==
    (run.pc # "idle" /\ NoExplicitPageSize) =>
        /\ config.pageSize = Letter
        /\ result.kind = "tree" =>
              /\ result.tree.pageSize = Letter
              /\ \A i \in 1..Len(result.visited) :
                    result.visited[i].path = <<>> =>
                        /\ result.visited[i].constraints.maxWidth = Pt(612)
                        /\ result.visited[i].constraints.maxHeight = Pt(792)

\* pdf(root, { debugLayout: true }) laid out on the A4 page of the engine
PageSizeA4Witness ==
    /\ run.pc = "done"
    /\ run.route = "pdf"
    /\ NoExplicitPageSize
    /\ "debugLayout" \in DOMAIN run.argument
    /\ result.tree.pageSize = [width |-> Pt(595), height |-> Pt(842)]

\* what the program does: without an explicit pageSize the page is Letter for
\* new Pipeline() and for pdf() without configuration, and the A4 page of the
\* layout engine for pdf() with a configuration
PageSizeWithoutExplicit ==
    (run.pc # "idle" /\ NoExplicitPageSize) =>
        config.pageSize = IF run.route = "pdf" /\ "none" \notin DOMAIN run.argument
                          THEN DEFAULT_PAGE_SIZE ELSE Letter

----------------------------------------------------------------------------
(* The shape of the LayoutTree *)

\* the LayoutNode ln is the layout of the Node n: it holds n, and the layouts
\* of the children of n in their order if n is a container, no children if not
RECURSIVE Mirrors(_, _)
Mirrors(ln, n) ==
    /\ ln.node = n
    /\ IF "children" \in DOMAIN n
       THEN /\ "children" \in DOMAIN ln
            /\ Len(ln.children) = Len(n.children)
            /\ \A i \in 1..Len(n.children) : Mirrors(ln.children[i], n.children[i])
       ELSE "children" \notin DOMAIN ln

\* C19: the tree layout() returns mirrors the document: the root holds the
\* root given, each container has one child LayoutNode per child Node, in
\* order and holding that child, a leaf has no children; and the call
\* leaves the document as it was given.
LayoutMirrors ==
    /\ [](result.kind = "tree" => Mirrors(result.tree.root, node))
    /\ [][node' = node]_vars

\* a container of two children laid out, the second a leaf
LayoutMirrorsWitness ==
    /\ result.kind = "tree"
    /\ "children" \in DOMAIN node
    /\ Len(node.children) = 2
    /\ Len(result.tree.root.children) = 2
    /\ result.tree.root.children[2].node = node.children[2]
    /\ "children" \notin DOMAIN result.tree.root.children[2]

----------------------------------------------------------------------------
(* The constraints handed down the tree *)

\* 0 <= minWidth <= maxWidth and 0 <= minHeight <= maxHeight
WellFormed(c) ==
    /\ Le(0, c.minWidth) /\ Le(c.minWidth, c.maxWidth)
    /\ Le(0, c.minHeight) /\ Le(c.minHeight, c.maxHeight)

\* C20: the root constraints of a layout() call being well formed, the
\* constraints of every calculator invocation of the call, those the stack
\* and box calculators hand to their children and those of the positioning
\* pass of the engine, are well formed.
ConstraintsWellFormed ==
    (result.kind # "none" /\ WellFormed(LayoutConstraints(constraints))) =>
        \A i \in 1..Len(result.visited) : WellFormed(result.visited[i].constraints)

\* on the default page, the text after a flexible spacer in a padded vStack
\* is handed a negative maxHeight by the positioning pass
NegativeMaxHeightWitness ==
    /\ result.kind = "tree"
    /\ constraints = NoArgument
    /\ node.type = "vStack"
    /\ \E i \in 1..Len(result.visited) :
          /\ result.visited[i].path = <<2>>
          /\ result.visited[i].constraints.maxHeight < 0
          /\ result.visited[i].constraints.maxHeight # NaN
          /\ result.visited[i].constraints.maxHeight # NegInfinity

----------------------------------------------------------------------------
(* The geometry helpers: shrink and the content-box helpers, each called  *)
(* once on arguments of its own                                            *)

\* shrink leaving the minima as they are
shrinkMaxOnly(c, width, height) ==
    [minWidth  |-> c.minWidth,
     maxWidth  |-> MathMax(0, Sub(c.maxWidth, width)),
     minHeight |-> c.minHeight,
     maxHeight |-> MathMax(0, Sub(c.maxHeight, height))]

shrink(c, width, height) ==
    [minWidth  |-> MathMax(0, Sub(c.minWidth, width)),
     maxWidth  |-> MathMax(0, Sub(c.maxWidth, width)),
     minHeight |-> MathMax(0, Sub(c.minHeight, height)),
     maxHeight |-> MathMax(0, Sub(c.maxHeight, height))]

contentWidth(box) ==
    IF "padding" \notin DOMAIN box THEN box.width
    ELSE MathMax(0, Sub(Sub(box.width, box.padding.left), box.padding.right))

contentHeight(box) ==
    IF "padding" \notin DOMAIN box THEN box.height
    ELSE MathMax(0, Sub(Sub(box.height, box.padding.top), box.padding.bottom))

innerPosition(box) ==
    IF "padding" \notin DOMAIN box THEN [x |-> box.x, y |-> box.y]
    ELSE [x |-> Add(box.x, box.padding.left), y |-> Add(box.y, box.padding.top)]

getContentBox(box) ==
    LET padding == IF "padding" \in DOMAIN box THEN box.padding
                   ELSE [top |-> 0, right |-> 0, bottom |-> 0, left |-> 0]
    IN  [x |-> Add(box.x, padding.left),
         y |-> Add(box.y, padding.top),
         width  |-> Sub(Sub(box.width, padding.left), padding.right),
         height |-> Sub(Sub(box.height, padding.top), padding.bottom)]

\* the constraints shrink is called on
ShrinkConstraints ==
    CalcConstraints
    \cup {[minWidth |-> Pt(30), maxWidth |-> Pt(100), minHeight |-> 0, maxHeight |-> Infinity]}

\* the width and the height taken away
ShrinkAmounts == {Pt(-5), 0, Pt(10), Pt(40), Pt(200)}

\* the boxes of the content-box helpers: without padding, with a padding that
\* fits, with a padding larger than the box
HelperBoxes ==
    {[LayoutBox(w, h, p) EXCEPT !.x = x, !.y = y] :
        x \in {0, Pt(7)}, y \in {0, Pt(3)}, w \in {0, Pt(10), Pt(100)}, h \in {Pt(10), Pt(50)},
        p \in {{}, {createPadding([uniform |-> Pt(5)])},
               {[top |-> Pt(20), right |-> Pt(30), bottom |-> Pt(40), left |-> Pt(10)]}}}

HelperCalls ==
    {[fn |-> "shrink", constraints |-> c, width |-> w, height |-> h, returned |-> {}] :
        c \in ShrinkConstraints, w \in ShrinkAmounts, h \in ShrinkAmounts}
    \cup
    {[fn |-> f, box |-> b, returned |-> {}] :
        f \in {"contentWidth", "contentHeight", "innerPosition", "getContentBox"},
        b \in HelperBoxes}

InitHelpers ==
    /\ brk = NoBreak
    /\ calculators = BuiltinCalculators
    /\ config = LayoutEngine(NoConfig)
    /\ node = NoNode
    /\ constraints = NoConstraints
    /\ result = NoResult
    /\ calls = <<>>
    /\ options = NoOptions
    /\ backend = <<>>
    /\ console = <<>>
    /\ run = NoRun
    /\ helper \in HelperCalls
    /\ adapter = NoAdapter
    /\ invocations = <<>>

\* the helper returns value
Returns(fn, value) ==
    /\ helper.fn = fn
    /\ helper.returned = {}
    /\ helper' = [helper EXCEPT !.returned = {value}]
    /\ UNCHANGED <<brk, calculators, config, node, constraints, result, calls, options,
                   backend, console, run, adapter, invocations>>

Shrink ==
    helper.fn = "shrink"
    /\ Returns("shrink", shrink(helper.constraints, helper.width, helper.height))

ContentWidth == helper.fn = "contentWidth" /\ Returns("contentWidth", contentWidth(helper.box))

ContentHeight ==
    helper.fn = "contentHeight" /\ Returns("contentHeight", contentHeight(helper.box))

InnerPosition ==
    helper.fn = "innerPosition" /\ Returns("innerPosition", innerPosition(helper.box))

GetContentBox ==
    helper.fn = "getContentBox" /\ Returns("getContentBox", getContentBox(helper.box))

NextHelpers ==
    \/ Shrink
    \/ ContentWidth
    \/ ContentHeight
    \/ InnerPosition
    \/ GetContentBox

SpecHelpers == InitHelpers /\ [][NextHelpers]_vars

\* the helper fn has returned
HelperReturned(fn) == helper.fn = fn /\ helper.returned # {}

HelperValue == CHOOSE v \in helper.returned : TRUE

\* a minus d, not below 0, +Infinity staying +Infinity
Floored(a, d) == IF a = Infinity THEN Infinity ELSE IF a - d < 0 THEN 0 ELSE a - d

\* C22: shrink(constraints, dw, dh) returns minWidth and maxWidth less dw and
\* minHeight and maxHeight less dh, each not below 0; an unbounded maximum
\* stays unbounded; on an axis where the minimum given is at most the
\* maximum given, the minimum returned is at most the maximum returned.
ShrinkFloors ==
    HelperReturned("shrink") =>
        LET c == helper.constraints
            r == HelperValue
        IN  /\ r.minWidth  = Floored(c.minWidth, helper.width)
            /\ r.maxWidth  = Floored(c.maxWidth, helper.width)
            /\ r.minHeight = Floored(c.minHeight, helper.height)
            /\ r.maxHeight = Floored(c.maxHeight, helper.height)
            /\ Le(c.minWidth, c.maxWidth) => Le(r.minWidth, r.maxWidth)
            /\ Le(c.minHeight, c.maxHeight) => Le(r.minHeight, r.maxHeight)

\* 30..100 x 0..Infinity less 40 and 10: 0..60 x 0..Infinity
ShrinkFloorsWitness ==
    /\ HelperReturned("shrink")
    /\ helper.constraints.minWidth = Pt(30)
    /\ helper.width = Pt(40)
    /\ helper.height = Pt(10)
    /\ HelperValue = [minWidth |-> 0, maxWidth |-> Pt(60),
                      minHeight |-> 0, maxHeight |-> Infinity]

\* the padding of a box, zero on every side where it has none
BoxPadding(box) ==
    IF "padding" \in DOMAIN box THEN box.padding
    ELSE [top |-> 0, right |-> 0, bottom |-> 0, left |-> 0]

\* the width and the height of the box less its padding, not below 0
InnerWidth(box) == Floored(box.width, BoxPadding(box).left + BoxPadding(box).right)
InnerHeight(box) == Floored(box.height, BoxPadding(box).top + BoxPadding(box).bottom)

\* C23: every content-box helper returns the inner origin (x + padding.left,
\* y + padding.top) and the inner width and height, the size of the box less
\* its padding and not below 0: contentWidth and contentHeight the inner
\* size, innerPosition the inner origin, getContentBox both.
ContentBoxFloored ==
    LET box == helper.box
    IN  /\ HelperReturned("contentWidth") => HelperValue = InnerWidth(box)
        /\ HelperReturned("contentHeight") => HelperValue = InnerHeight(box)
        /\ HelperReturned("innerPosition") =>
              HelperValue = [x |-> box.x + BoxPadding(box).left,
                             y |-> box.y + BoxPadding(box).top]
        /\ HelperReturned("getContentBox") =>
              HelperValue = [x |-> box.x + BoxPadding(box).left,
                             y |-> box.y + BoxPadding(box).top,
                             width |-> InnerWidth(box), height |-> InnerHeight(box)]

\* what the program does: contentWidth, contentHeight and innerPosition are
\* as C23 says, getContentBox returns the inner origin and the size of the
\* box less its padding, below 0 when the padding is larger than the box
ContentBoxUnfloored ==
    LET box == helper.box
    IN  /\ HelperReturned("contentWidth") => HelperValue = InnerWidth(box)
        /\ HelperReturned("contentHeight") => HelperValue = InnerHeight(box)
        /\ HelperReturned("innerPosition") =>
              HelperValue = [x |-> box.x + BoxPadding(box).left,
                             y |-> box.y + BoxPadding(box).top]
        /\ HelperReturned("getContentBox") =>
              HelperValue = [x |-> box.x + BoxPadding(box).left,
                             y |-> box.y + BoxPadding(box).top,
                             width |-> box.width - BoxPadding(box).left
                                                 - BoxPadding(box).right,
                             height |-> box.height - BoxPadding(box).top
                                                   - BoxPadding(box).bottom]

\* getContentBox of a box 10 wide and 10 high with a padding of 20, 30, 40, 10:
\* a content box of -30 by -50
NegativeContentBoxWitness ==
    /\ HelperReturned("getContentBox")
    /\ helper.box.width = Pt(10)
    /\ helper.box.height = Pt(10)
    /\ "padding" \in DOMAIN helper.box
    /\ HelperValue.width = Pt(-30)
    /\ HelperValue.height = Pt(-50)

----------------------------------------------------------------------------
(* The places of the children of a container *)

\* the numeric spacing a node declares, 0 if none
DeclaredSpacing(n) ==
    IF "props" \in DOMAIN n /\ "spacing" \in DOMAIN n.props THEN n.props.spacing ELSE 0

\* C24: in the LayoutTree, each child of an hStack after the first is at the
\* x of the child before it plus that child's width plus the spacing, and at
\* the same y; each child of any other container is at the y of the child
\* before it plus that child's height plus the spacing, and at the same x.
\* The spacing is the one the parent declares, 0 if it declares none, and
\* it enters only between two children that follow each other.
ChildrenAdvance ==
    result.kind = "tree" =>
        \A ln \in LayoutNodesOf(result.tree.root) :
            "children" \in DOMAIN ln =>
                \A i \in 1..(Len(ln.children) - 1) :
                    LET a == ln.children[i].box
                        b == ln.children[i + 1].box
                    IN  IF ln.node.type = "hStack"
                        THEN /\ b.x = Add(Add(a.x, a.width), DeclaredSpacing(ln.node))
                             /\ b.y = a.y
                        ELSE /\ b.y = Add(Add(a.y, a.height), DeclaredSpacing(ln.node))
                             /\ b.x = a.x

\* an hStack of spacing 10 and padding 5 on the default page: the spacer, 30
\* wide, at x = 5 and the text at x = 45
ChildrenAdvanceWitness ==
    /\ result.kind = "tree"
    /\ constraints = NoArgument
    /\ node.type = "hStack"
    /\ DeclaredSpacing(node) = Pt(10)
    /\ Len(node.children) = 2
    /\ result.tree.root.children[1].box.x = Pt(5)
    /\ result.tree.root.children[1].box.width = Pt(30)
    /\ result.tree.root.children[2].box.x = Pt(45)
    /\ result.tree.root.children[2].box.y = Pt(5)

----------------------------------------------------------------------------
(* The sizes of the children in the sizing and in the positioning *)

\* the calculator invocation that gave the node at a place the box recorded
\* in the tree: the last one on that place
LastInvocation(visited, path) ==
    CHOOSE k \in 1..Len(visited) :
        /\ visited[k].path = path
        /\ \A j \in (k + 1)..Len(visited) : visited[j].path # path

\* the box the calculator of the container at a place obtained for its child
\* i through layoutChild when it computed the recorded box of the container
ObtainedForChild(visited, path, i) ==
    LET k == LastInvocation(visited, path)
        j == CHOOSE j \in (k + 1)..Len(visited) :
                /\ visited[j].path = Append(path, i)
                /\ \A h \in (k + 1)..(j - 1) : visited[h].path # Append(path, i)
    IN  visited[j].box

\* C25: for every container of the LayoutTree, the width and the height
\* recorded for each child are the width and the height the calculator of
\* the container obtained for that child, through layoutChild, when it
\* computed the size of the container.
ChildSizesAgree ==
    result.kind = "tree" =>
        \A p \in PathsOf(result.tree.root, <<>>) :
            LET ln == LayoutNodeAt(result.tree.root, p)
            IN  "children" \in DOMAIN ln =>
                    \A i \in 1..Len(ln.children) :
                        /\ ln.children[i].box.width
                              = ObtainedForChild(result.visited, p, i).width
                        /\ ln.children[i].box.height
                              = ObtainedForChild(result.visited, p, i).height

\* a vStack of padding 5 holding a flexible spacer, on the default page: the
\* calculator of the vStack obtained 585 by Infinity for the spacer, the
\* tree records 590 by 837
ChildSizesDifferWitness ==
    /\ result.kind = "tree"
    /\ constraints = NoArgument
    /\ node.type = "vStack"
    /\ Len(node.children) = 1
    /\ node.children[1].type = "spacer"
    /\ ObtainedForChild(result.visited, <<>>, 1).width = Pt(585)
    /\ ObtainedForChild(result.visited, <<>>, 1).height = Infinity
    /\ result.tree.root.children[1].box.width = Pt(590)
    /\ result.tree.root.children[1].box.height = Pt(837)

----------------------------------------------------------------------------
(* The greedy line breaking *)

\* a line fits within maxWidth
Fits(line) == Le(measureText(line, brk.fontSize), brk.maxWidth)

\* an iteration of the loop appends the word to the current line exactly
\* when the candidate line fits; otherwise it pushes the current line, if
\* there is one, and the word starts a new line, pushed at once when the word
\* alone does not fit
GreedyStep ==
    (brk.pc = "loop" /\ brk.i <= Len(brk.words)) =>
        LET word      == brk.words[brk.i]
            candidate == IF brk.currentLine # <<>>
                         THEN brk.currentLine \o <<" ">> \o word ELSE word
            pushed    == IF brk.currentLine # <<>>
                         THEN Append(brk.lines, brk.currentLine) ELSE brk.lines
        IN  IF Fits(candidate)
            THEN brk'.currentLine = candidate /\ brk'.lines = brk.lines
            ELSE \/ brk'.currentLine = word /\ brk'.lines = pushed
                 \/ brk'.currentLine = <<>> /\ brk'.lines = Append(pushed, word)

\* every returned line of more than one word fits, and no two returned lines
\* that follow each other fit when joined by a space
GreedyLines ==
    brk.pc = "done" =>
        /\ \A j \in 1..Len(brk.lines) :
              Len(WordsOf(brk.lines[j])) > 1 => Fits(brk.lines[j])
        /\ \A j \in 1..(Len(brk.lines) - 1) :
              ~Fits(brk.lines[j] \o <<" ">> \o brk.lines[j + 1])

\* C26: breakLines is greedy: the next word is appended to the current line
\* exactly when the current line, a space and the word measure <= maxWidth,
\* otherwise the current line is flushed and the word starts a new line;
\* every returned line of more than one word measures <= maxWidth, and no
\* two consecutive returned lines, joined, measure <= maxWidth.
BreakLinesGreedy == [][GreedyStep]_vars /\ []GreedyLines

\* 'a b a' in font size 10 within 20: 'a b', 18 wide, then 'a'
BreakLinesGreedyWitness ==
    /\ brk.pc = "done"
    /\ brk.fontSize = 10
    /\ brk.maxWidth = Pt(20)
    /\ brk.lines = << <<"a", " ", "b">>, <<"a">> >>

----------------------------------------------------------------------------
(* The even split of the width of an hStack *)

\* the calculator invocations on the children of the calculated node
ChildVisits == SelectSeq(result.visited, LAMBDA v : Len(v.path) = 1)

\* (max(0, maxWidth - horizontalPadding) - spacing x (n - 1)) / n
EvenShare ==
    DivN(Sub(MathMax(0, Sub(constraints.maxWidth, HorizontalPadding)), SpacingTotal),
         Len(node.children))

\* every child is offered minWidth 0 and the even share as maxWidth
EvenlyOffered ==
    \A i \in 1..Len(ChildVisits) :
        /\ ChildVisits[i].constraints.minWidth = 0
        /\ ChildVisits[i].constraints.maxWidth = EvenShare

\* every child is at most as wide as the maxWidth it was offered
ChildrenHonour ==
    \A i \in 1..Len(ChildVisits) :
        Le(ChildVisits[i].box.width, ChildVisits[i].constraints.maxWidth)

\* C27 as claimed: the children of an hStack are offered minWidth 0 and the
\* even share of the width as maxWidth, and when each is at most as wide as
\* its maxWidth, their widths and the spacing between them sum to at most
\* maxWidth less the horizontal padding.
HStackSplitWithinRemainder ==
    (StackCalculated("hStack") /\ Len(node.children) > 0) =>
        /\ EvenlyOffered
        /\ ChildrenHonour =>
              Le(Add(SumOf(ChildBoxes, "width", 1), SpacingTotal),
                 Sub(constraints.maxWidth, HorizontalPadding))

\* C27: the children of an hStack are offered minWidth 0 and the even share
\* of the width as maxWidth, and when each is at most as wide as its
\* maxWidth, their widths and the spacing between them sum to at most
\* maxWidth less the horizontal padding, or 0 when the padding is larger
\* than maxWidth.
HStackSplitWithin ==
    (StackCalculated("hStack") /\ Len(node.children) > 0) =>
        /\ EvenlyOffered
        /\ ChildrenHonour =>
              Le(Add(SumOf(ChildBoxes, "width", 1), SpacingTotal),
                 MathMax(0, Sub(constraints.maxWidth, HorizontalPadding)))

\* two children in an hStack of spacing 10 and padding 5 within 120: each is
\* offered (110 - 10) / 2 = 50
HStackSplitWitness ==
    /\ StackCalculated("hStack")
    /\ Len(node.children) = 2
    /\ constraints.maxWidth = Pt(120)
    /\ SpacingTotal = Pt(10)
    /\ HorizontalPadding = Pt(10)
    /\ EvenShare = Pt(50)
    /\ ChildrenHonour
    /\ ChildVisits[1].constraints.maxWidth = Pt(50)
    /\ ChildVisits[2].constraints.maxWidth = Pt(50)

----------------------------------------------------------------------------
(* registerCalculator calls on an engine, then one layout()                *)

\* the types registered and the calculators registered for them: a custom
\* type and a built-in one, calculators that take a node of any props
RegisteredTypes == {"chart", "text"}
RegisteredCalculators == {"SpacerCalculator", "DividerCalculator"}

InitRegistry ==
    /\ brk = NoBreak
    /\ calculators = BuiltinCalculators
    /\ config = LayoutEngine(NoConfig)
    /\ node \in RenderDocuments
    /\ constraints = NoConstraints
    /\ result = NoResult
    /\ calls = <<>>
    /\ options = NoOptions
    /\ backend = <<>>
    /\ console = <<>>
    /\ run = NoRun
    /\ helper = NoHelper
    /\ adapter = NoAdapter
    /\ invocations = <<>>

\* engine.registerCalculator(nodeType, calculator): this.calculators.set
Register ==
    /\ calls = <<>>
    /\ \E nodeType \in RegisteredTypes, calculator \in RegisteredCalculators :
          calculators' = [t \in DOMAIN calculators \cup {nodeType} |->
                            IF t = nodeType THEN calculator ELSE calculators[t]]
    /\ UNCHANGED <<brk, config, node, constraints, result, calls, options, backend,
                   console, run, helper, adapter, invocations>>

NextRegistry == Register \/ Layout

SpecRegistry == InitRegistry /\ [][NextRegistry]_vars

\* the size the named calculator gives a childless node
LeafSize(calculator, n, c) ==
    LET box == CASE calculator = "TextCalculator"    -> TextCalculator(n, c)
                 [] calculator = "DividerCalculator" -> DividerCalculator(n, c)
                 [] calculator = "SpacerCalculator"  -> SpacerCalculator(n, c)
    IN  [width |-> box.width, height |-> box.height]

\* the node of the document at a place
RECURSIVE NodeAt(_, _)
NodeAt(n, path) == IF path = <<>> THEN n ELSE NodeAt(n.children[Head(path)], Tail(path))

\* every invocation of the call on a node of a registered type got the box of
\* the calculator registered last for the type, and a document of registered
\* types only is laid out without error
DispatchedToRegistered ==
    result.kind # "none" =>
        /\ \A i \in 1..Len(result.visited) :
              LET v == result.visited[i]
                  n == NodeAt(node, v.path)
              IN  n.type \in RegisteredTypes =>
                      [width |-> v.box.width, height |-> v.box.height]
                         = LeafSize(calculators[n.type], n, v.constraints)
        /\ TypesOf(node) \subseteq DOMAIN calculators => result.kind = "tree"
        /\ TypesOf(node) \subseteq DOMAIN calculators <=> result.kind # "error"

\* a registration changes the entry of one type and leaves the others, and
\* the configuration of the engine, as they were
RegistrationFrame ==
    /\ DOMAIN calculators \subseteq DOMAIN calculators'
    /\ Cardinality({t \in DOMAIN calculators' :
                       t \notin DOMAIN calculators \/ calculators'[t] # calculators[t]}) <= 1
    /\ \A t \in DOMAIN calculators \ RegisteredTypes : calculators'[t] = calculators[t]
    /\ config' = config

\* C28: registerCalculator(type, c) changes the registry entry of that type
\* only; every later layout() dispatches the nodes of the type to the
\* calculator registered last, also for a built-in type; a document holding
\* a type that was unknown lays out without error once the type is
\* registered; the other types keep their calculators.
RegistryFrame == [][RegistrationFrame]_vars /\ []DispatchedToRegistered

\* a vStack of a text, a chart and a divider laid out after chart was
\* registered with the spacer calculator and text with the divider calculator
RegistryFrameWitness ==
    /\ result.kind = "tree"
    /\ constraints = NoArgument
    /\ "chart" \in DOMAIN calculators
    /\ calculators["chart"] = "SpacerCalculator"
    /\ calculators["text"] = "DividerCalculator"
    /\ calculators["divider"] = "DividerCalculator"
    /\ node.type = "vStack"
    /\ Len(node.children) = 3
    /\ node.children[2] = ChartNode
    /\ result.tree.root.children[1].box.height = Pt(1)
    /\ result.tree.root.children[2].box.height = 0

----------------------------------------------------------------------------
(* The children of a container and the box of the container *)

\* the places of the tree holding a container
ContainerPlaces ==
    {result.visited[k].path : k \in {k \in 1..Len(result.visited) :
        HasChildren(NodeAt(node, result.visited[k].path))}}

\* the box of the container at a place as layoutChildren receives it: the
\* one its calculator returned
ParentBox(path) == result.visited[LastInvocation(result.visited, path)].box

\* a child box inside a parent box
Inside(child, parentBox) ==
    /\ Le(parentBox.x, child.x)
    /\ Le(parentBox.y, child.y)
    /\ Le(Add(child.x, child.width), Add(parentBox.x, parentBox.width))
    /\ Le(Add(child.y, child.height), Add(parentBox.y, parentBox.height))

\* C29: in the positioning pass every direct child of a container stays
\* inside the box of the container as that pass uses it: x >= px, y >= py,
\* x + width <= px + pw and y + height <= py + ph.
ChildrenInsideParent ==
    result.kind = "tree" =>
        \A path \in ContainerPlaces :
            LET ln == LayoutNodeAt(result.tree.root, path)
            IN  \A i \in 1..Len(ln.children) : Inside(ln.children[i].box, ParentBox(path))

\* a container of two children whose second child is placed below the
\* bottom edge of the container's box
ChildBelowParentWitness ==
    /\ result.kind = "tree"
    /\ HasChildren(node)
    /\ Len(node.children) = 2
    /\ result.tree.root.box.y = 0
    /\ Gt(result.tree.root.children[2].box.y, result.tree.root.box.height)

----------------------------------------------------------------------------
(* Two layout() invocations in progress on one engine, one calculator call *)
(* of the positioning per step                                             *)

\* the documents of the invocations: those of the repeated calls and a
\* vStack holding an hStack
ConcurrentDocuments ==
    CallDocuments \cup
    {[type |-> "vStack", props |-> [spacing |-> Pt(10)],
      children |-> <<[type |-> "hStack", props |-> [padding |-> [uniform |-> Pt(5)]],
                      children |-> <<[type |-> "text", props |-> [content |-> LongText]],
                                     [type |-> "spacer", props |-> [width |-> Pt(30)]]>>],
                     [type |-> "text", props |-> [content |-> LongText]]>>]}

\* a layout() invocation: its arguments, the layoutChildren loops it is in
\* (innermost last), the calculator invocations it made, what it returned
Invocation(root, c) ==
    [root |-> root, constraints |-> c, pc |-> "start", stack |-> <<>>,
     visited |-> <<>>, overlapped |-> FALSE, result |-> NoResult]

InitConcurrent ==
    /\ brk = NoBreak
    /\ calculators = BuiltinCalculators
    /\ config = LayoutEngine(NoConfig)
    /\ node = NoNode
    /\ constraints = NoConstraints
    /\ result = NoResult
    /\ calls = <<>>
    /\ options = NoOptions
    /\ backend = <<>>
    /\ console = <<>>
    /\ run = NoRun
    /\ helper = NoHelper
    /\ adapter = NoAdapter
    /\ invocations \in {<<Invocation(a, c), Invocation(b, d)>> :
                           a \in ConcurrentDocuments, b \in ConcurrentDocuments,
                           c \in {NoArgument, loose(Pt(40), Pt(30))},
                           d \in {NoArgument}}

\* the locals of layoutChildren on entry: the cursor at the content corner
Frame(parentNode, parentBox, path) ==
    [parentNode |-> parentNode, parentBox |-> parentBox, path |-> path, i |-> 1,
     currentX |-> Add(parentBox.x, IF "padding" \in DOMAIN parentBox
                                   THEN parentBox.padding.left ELSE 0),
     currentY |-> Add(parentBox.y, IF "padding" \in DOMAIN parentBox
                                   THEN parentBox.padding.top ELSE 0),
     layoutNodes |-> <<>>]

\* childConstraints offering the whole parent box
FrameConstraintsWhole(f) ==
    [minWidth |-> 0, maxWidth |-> f.parentBox.width,
     minHeight |-> 0, maxHeight |-> f.parentBox.height]

\* childConstraints: what is left of the parent box after the cursor
FrameConstraints(f) ==
    [minWidth  |-> 0,
     maxWidth  |-> Sub(f.parentBox.width, Sub(f.currentX, f.parentBox.x)),
     minHeight |-> 0,
     maxHeight |-> Sub(f.parentBox.height, Sub(f.currentY, f.parentBox.y))]

\* the loop body after layoutNodeWithChildren returned the child: the box
\* moved to the cursor, the cursor advanced
Placed(f, ln) ==
    LET isHorizontal == f.parentNode.type = "hStack"
        gap == IF f.i < Len(f.parentNode.children)
               THEN Coalesce(getSpacing(f.parentNode), 0) ELSE 0
    IN  [f EXCEPT !.i = f.i + 1,
                  !.currentX = IF isHorizontal
                               THEN Add(Add(f.currentX, ln.box.width), gap) ELSE f.currentX,
                  !.currentY = IF isHorizontal THEN f.currentY
                               ELSE Add(Add(f.currentY, ln.box.height), gap),
                  !.layoutNodes = Append(f.layoutNodes,
                      [ln EXCEPT !.box = [ln.box EXCEPT !.x = f.currentX, !.y = f.currentY]])]

\* layoutNodeWithChildren returning a LayoutNode: to the loop that asked for
\* it, or to layout(), which wraps the root in the LayoutTree
Completed(inv, ln) ==
    IF inv.stack = <<>>
    THEN [inv EXCEPT !.pc = "done",
                     !.result = [kind |-> "tree",
                                 tree |-> [root |-> ln, pageSize |-> config.pageSize],
                                 visited |-> inv.visited]]
    ELSE [inv EXCEPT !.stack[Len(inv.stack)] = Placed(inv.stack[Len(inv.stack)], ln)]

\* layoutNodeWithChildren after its layoutNode call on the node n
Entered(inv, n, own, path) ==
    LET seen == [inv EXCEPT !.visited = inv.visited \o own.visited]
    IN  IF own.threw
        THEN [seen EXCEPT !.pc = "done", !.stack = <<>>,
                          !.result = [kind |-> "error", error |-> own.error,
                                      visited |-> seen.visited]]
        ELSE IF HasChildren(n)
        THEN [seen EXCEPT !.pc = "running", !.stack = Append(inv.stack, Frame(n, own.box, path))]
        ELSE Completed(seen, [node |-> n, box |-> own.box])

\* the step is taken while another invocation is between its steps
Overlapping(k, inv) ==
    [inv EXCEPT !.overlapped = inv.overlapped \/
                    \E j \in DOMAIN invocations : j # k /\ invocations[j].pc = "running"]

\* layout(): the constraints, the context, layoutNode on the root
Begin(k) ==
    /\ invocations[k].pc = "start"
    /\ invocations' = [invocations EXCEPT ![k] =
          Bind(layoutNode(invocations[k].root,
                          LayoutConstraints(invocations[k].constraints), <<>>),
               LAMBDA own : Entered(Overlapping(k, invocations[k]),
                                    invocations[k].root, own, <<>>))]
    /\ UNCHANGED <<brk, calculators, config, node, constraints, result, calls, options,
                   backend, console, run, helper, adapter>>

\* one iteration of the loop of layoutChildren up to the layoutNode call on
\* the child
EnterChild(k) ==
    /\ invocations[k].pc = "running"
    /\ LET inv == invocations[k]
           f == inv.stack[Len(inv.stack)]
       IN  /\ f.i <= Len(f.parentNode.children)
           /\ invocations' = [invocations EXCEPT ![k] =
                 Bind(layoutNode(f.parentNode.children[f.i], FrameConstraints(f),
                                 Append(f.path, f.i)),
                      LAMBDA own : Entered(Overlapping(k, inv), f.parentNode.children[f.i],
                                           own, Append(f.path, f.i)))]
    /\ UNCHANGED <<brk, calculators, config, node, constraints, result, calls, options,
                   backend, console, run, helper, adapter>>

\* the loop of layoutChildren ends: layoutNodeWithChildren returns the node
\* with its children
LeaveChildren(k) ==
    /\ invocations[k].pc = "running"
    /\ LET inv == invocations[k]
           f == inv.stack[Len(inv.stack)]
       IN  /\ f.i > Len(f.parentNode.children)
           /\ invocations' = [invocations EXCEPT ![k] =
                 Completed([Overlapping(k, inv) EXCEPT
                               !.stack = SubSeq(inv.stack, 1, Len(inv.stack) - 1)],
                           [node |-> f.parentNode, box |-> f.parentBox,
                            children |-> f.layoutNodes])]
    /\ UNCHANGED <<brk, calculators, config, node, constraints, result, calls, options,
                   backend, console, run, helper, adapter>>

NextConcurrent ==
    \E k \in DOMAIN invocations : Begin(k) \/ EnterChild(k) \/ LeaveChildren(k)

SpecConcurrent == InitConcurrent /\ [][NextConcurrent]_vars

\* an invocation that returned, returned what layout() returns run alone
ReturnsAsAlone ==
    \A k \in DOMAIN invocations :
        invocations[k].pc = "done" =>
            invocations[k].result = layout(invocations[k].root, invocations[k].constraints)

\* a step belongs to one invocation and writes the locals of that one only:
\* not the other invocation, not the engine
StepOfOne ==
    /\ calculators' = calculators
    /\ config' = config
    /\ \E k \in DOMAIN invocations :
          \A j \in DOMAIN invocations : j # k => invocations'[j] = invocations[j]

----------------------------------------------------------------------------
(* Successive generate() calls on one Pipeline                             *)

\* new PDFKitAdapter(options): the document open, no chunk collected yet
PDFKitAdapter == [isFirstPage |-> TRUE, chunks |-> <<>>, ended |-> FALSE]

GenerationDocuments ==
    {PlainText, VerticalDivider,
     [type |-> "box", props |-> [padding |-> [uniform |-> Pt(5)]],
      children |-> <<PlainText>>],
     ChartNode, Null}

\* what the PDFKit document does when it is written to and ended after its
\* end(): the library decides; it emits the new data and 'end' again, 'end'
\* alone, 'error', or no event
AfterEnd == {"data and end", "end", "error", "none"}

\* the backend calls of the commands
RECURSIVE ExecuteAll(_)
ExecuteAll(commands) ==
    IF commands = <<>> THEN <<>>
    ELSE <<execute(Head(commands))>> \o ExecuteAll(Tail(commands))

\* the chunks the document emits for backend calls of the generate() call k
RECURSIVE Chunks(_, _)
Chunks(k, drawn) ==
    IF drawn = <<>> THEN <<>>
    ELSE <<[call |-> k, written |-> Head(drawn)]>> \o Chunks(k, Tail(drawn))

InitGenerations ==
    /\ brk = NoBreak
    /\ calculators = BuiltinCalculators
    /\ node = NoNode
    /\ constraints = NoConstraints
    /\ result = NoResult
    /\ calls = <<>>
    /\ backend = <<>>
    /\ console = <<>>
    /\ helper = NoHelper
    /\ invocations = <<>>
    /\ \E a \in {<<>>, [debugLayout |-> {TRUE}]}, kind \in {"MockRenderBackend", "PDFKitAdapter"} :
          /\ config = Pipeline(a).layoutEngine
          /\ options = Pipeline(a).renderer
          /\ adapter = IF kind = "PDFKitAdapter" THEN PDFKitAdapter ELSE NoAdapter
          /\ run = [pc |-> "idle", backend |-> kind, generated |-> <<>>]

\* finalize() of the backend after the calls drawn of the generate() call k:
\* the state of the adapter and what the promise does
finalize(k, drawn, event) ==
    IF run.backend = "MockRenderBackend"
    THEN [adapter |-> adapter,
          outcome |-> [kind |-> "buffer", content |-> <<>>]]
    ELSE IF ~adapter.ended
    THEN LET chunks == adapter.chunks
                       \o (IF adapter.isFirstPage THEN <<>>
                           ELSE Chunks(k, <<[method |-> "addPage", args |-> <<>>]>>))
                       \o Chunks(k, drawn)
         IN  [adapter |-> [isFirstPage |-> FALSE, chunks |-> chunks, ended |-> TRUE],
              outcome |-> [kind |-> "buffer", content |-> chunks]]
    ELSE LET chunks == IF event = "data and end"
                       THEN adapter.chunks
                            \o (IF adapter.isFirstPage THEN <<>>
                                ELSE Chunks(k, <<[method |-> "addPage", args |-> <<>>]>>))
                            \o Chunks(k, drawn)
                       ELSE adapter.chunks
         IN  [adapter |-> [isFirstPage |-> FALSE, chunks |-> chunks, ended |-> TRUE],
              outcome |-> CASE event \in {"data and end", "end"} ->
                                 [kind |-> "buffer", content |-> chunks]
                            [] event = "error" ->
                                 [kind |-> "error",
                                  error |-> GenerationFailed(<<"stream error">>)]
                            [] event = "none" -> [kind |-> "pending"]]

\* pipeline.generate(root): validation, layout, render on this.backend
Generate ==
    /\ run.pc = "idle"
    /\ Len(run.generated) < MaxCalls
    /\ \E root \in GenerationDocuments, event \in AfterEnd :
          LET k == Len(run.generated) + 1
              from == Len(backend) + 1
          IN  /\ (run.backend = "MockRenderBackend" \/ ~adapter.ended) => event = "none"
              /\ node' = root
              /\ IF validateNode(root) # {}
                 THEN /\ run' = [run EXCEPT !.generated = Append(@,
                                   [root |-> root, from |-> from, to |-> from - 1,
                                    outcome |-> [kind |-> "error",
                                                 error |-> CHOOSE e \in validateNode(root) : TRUE]])]
                      /\ UNCHANGED <<result, calls, backend, console, adapter>>
                 ELSE /\ result' = layout(root, NoArgument)
                      /\ calls' = Append(calls, [root |-> root, constraints |-> NoArgument,
                                                 result |-> result'])
                      /\ IF result'.kind = "error"
                         THEN /\ run' = [run EXCEPT !.generated = Append(@,
                                           [root |-> root, from |-> from, to |-> from - 1,
                                            outcome |-> [kind |-> "error",
                                                         error |-> GenerationFailed(result'.error)]])]
                              /\ UNCHANGED <<backend, console, adapter>>
                         ELSE LET r == generateCommands(result'.tree.root,
                                                        TRUE \in options.debugLayout, <<>>)
                                  drawn == ExecuteAll(r.commands)
                                  final == finalize(k, drawn, event)
                              IN  /\ console' = console \o r.warnings
                                  /\ backend' = backend
                                        \o <<[method |-> "createPage", args |-> <<undefined>>]>>
                                        \o drawn
                                        \o <<[method |-> "finalize", args |-> <<>>]>>
                                  /\ adapter' = final.adapter
                                  /\ run' = [run EXCEPT !.generated = Append(@,
                                        [root |-> root, from |-> from,
                                         to |-> from + Len(drawn) + 1,
                                         outcome |-> final.outcome])]
    /\ UNCHANGED <<brk, calculators, config, constraints, options, helper, invocations>>

NextGenerations == Generate

SpecGenerations == InitGenerations /\ [][NextGenerations]_vars

\* the documents generate() renders: valid and of registered types
Renderable(root) ==
    /\ validateNode(root) = {}
    /\ TypesOf(root) \subseteq DOMAIN calculators

\* the backend calls the k-th generate() call made
BackendCallsOf(k) == SubSeq(backend, run.generated[k].from, run.generated[k].to)

\* C30: successive generate() calls on one Pipeline are independent: for
\* each call of a document that renders, the backend sees one createPage,
\* then the draw calls of that document only, then one finalize, and the
\* call returns an output that holds nothing drawn by an earlier call.
GenerationsIndependent ==
    run.pc = "idle" /\ "generated" \in DOMAIN run =>
        \A k \in 1..Len(run.generated) :
            Renderable(run.generated[k].root) =>
                LET seen == BackendCallsOf(k)
                    drawn == ExecuteAll(generateCommands(
                                 layout(run.generated[k].root, NoArgument).tree.root,
                                 TRUE \in options.debugLayout, <<>>).commands)
                    out == run.generated[k].outcome
                IN  /\ seen = <<[method |-> "createPage", args |-> <<undefined>>]>>
                                 \o drawn \o <<[method |-> "finalize", args |-> <<>>]>>
                    /\ out.kind = "buffer"
                    /\ \A c \in 1..Len(out.content) : out.content[c].call = k

\* the second generate() call on a Pipeline with the default backend, both
\* calls on a text: the second does not return a document of its own
SecondGenerationWitness ==
    /\ run.pc = "idle" /\ "generated" \in DOMAIN run
    /\ run.backend = "PDFKitAdapter"
    /\ Len(run.generated) = 2
    /\ run.generated[1].root = PlainText
    /\ run.generated[2].root = PlainText
    /\ run.generated[1].outcome.kind = "buffer"
    /\ \A c \in 1..Len(run.generated[1].outcome.content) :
          run.generated[1].outcome.content[c].call = 1
    /\ \/ run.generated[2].outcome.kind # "buffer"
       \/ \E c \in 1..Len(run.generated[2].outcome.content) :
             run.generated[2].outcome.content[c].call = 1

====
